---- MODULE Spec2Model ----
(***************************************************************************)
(* A model of the MySQL MCP server (src/unnamed/part_000): the file cache  *)
(* (saveToCache / readFromCache and the naming functions), the connection  *)
(* handle and the tool handlers.                                           *)
(*                                                                         *)
(* Text is modelled as a sequence of one-character strings, so that        *)
(* substring, prefix, sort and hash are computed on the characters as the  *)
(* JavaScript code computes them.  Time is Date.now() in milliseconds,     *)
(* counted from the epoch.                                                 *)
(***************************************************************************)
EXTENDS Integers, Sequences, FiniteSets, TLC

VARIABLES
  now,          \* Date.now(), milliseconds
  cacheEnabled, \* this.cacheConfig.enabled
  fsOk,         \* the file system carries out the cache's operations (FALSE: they throw)
  dirs,         \* directories that exist below cacheConfig.baseDir
  files,        \* files below cacheConfig.baseDir: [dir, name, mtime, content]
  configDb,     \* this.config.database
  connection,   \* this.connection
  call,         \* the tool call (or cache operation) that ran last
  io,           \* what that call did: connections opened, statements sent, file written
  response,     \* what that call returned
  pre,          \* the files as that call found them (history, read by the properties only)
  last,         \* the tool call completed most recently, kept while the clock runs
  ncalls,       \* calls made so far (bounds the behaviours)
  wpc,          \* overlapping saveToCache calls: position of each
  wname,        \* ... the file name each has generated
  wdata         \* ... the payload each is writing

vars == <<now, cacheEnabled, fsOk, dirs, files, configDb, connection, call, io, response,
          pre, last, ncalls, wpc, wname, wdata>>

-----------------------------------------------------------------------------
(* Bounds of the model *)

MaxHours == 5       \* mysql_discover_analytics calls: whole hours the clock advances
MaxMs == 1          \* the clock advances by single milliseconds at most this often
QueryMaxCalls == 2   \* mysql_query calls in one behaviour
CacheMaxHours == 2  \* cache operations: whole hours the clock advances
MaxSaves == 2       \* cache operations: saveToCache calls in one behaviour
QueryMaxHours == 1  \* mysql_query calls: whole hours the clock advances
SchemaMaxCalls == 2 \* mysql_schema calls in one behaviour
SchemaMaxHours == 2 \* mysql_schema calls: whole hours the clock advances
DiscoveryMaxCalls == 2 \* mysql_discover_analytics calls in one behaviour
ToolsMaxCalls == 2  \* calls in one behaviour of the server with all its tools
MaxDatabases == 12  \* pagination: databases in the list
MaxPageSize == 5    \* pagination: largest page_size
MaxNegativePage == 2 \* pagination: how far below zero a page goes
MaxPage == 13       \* pagination: largest page
MaxFillers == 5      \* classification: most columns no rule matches
MaxSampleRows == 100 \* classification: the rows of a table, the largest sample limit
MaxTableCount == 3   \* single-database analysis: most tables of a database, largest max_tables_per_db
MaxSampleLimit == 2  \* single-database analysis: largest sample_data_limit
MaxCrossDatabases == 3 \* cross-database insights: most databases of a server
MaxTables == 3       \* join suggestions: most tables of a request
MaxEdges == 3        \* relationship graph: most foreign-key edges of an input

-----------------------------------------------------------------------------
(* Text *)

\* An absent (undefined) argument.  Every text is a sequence of one-character
\* strings, so no text equals it.
Undefined == <<"undefined">>

\* JavaScript truthiness of an optional string: undefined and '' are falsy.
Truthy(s) == s # Undefined /\ s # <<>>

\* The printable ASCII characters, in code order from 32 (three that the
\* texts of the model never use are held by their names).
Ascii == <<" ","!","dquote","#","$","%","&","'","(",")","*","+",",","-",".","/",
           "0","1","2","3","4","5","6","7","8","9",":",";","<","=",">","?","@",
           "A","B","C","D","E","F","G","H","I","J","K","L","M","N","O","P","Q",
           "R","S","T","U","V","W","X","Y","Z","[","bslash","]","^","_","btick",
           "a","b","c","d","e","f","g","h","i","j","k","l","m","n","o","p","q",
           "r","s","t","u","v","w","x","y","z","{","|","}","~">>

CodeTable == [c \in {Ascii[i] : i \in DOMAIN Ascii} |->
                31 + (CHOOSE i \in DOMAIN Ascii : Ascii[i] = c)]

\* String.prototype.charCodeAt for one character
charCodeAt(c) == CodeTable[c]

\* String.prototype.toLowerCase
LowerChar(c) == IF charCodeAt(c) >= 65 /\ charCodeAt(c) <= 90
                THEN Ascii[charCodeAt(c) + 32 - 31] ELSE c

toLowerCase(s) == [i \in 1..Len(s) |-> LowerChar(s[i])]

\* String.prototype.trim (the model's only white space is the space)
trim(s) ==
  IF \A i \in 1..Len(s) : s[i] = " " THEN <<>>
  ELSE SubSeq(s, CHOOSE i \in 1..Len(s) : s[i] # " " /\ \A j \in 1..(i - 1) : s[j] = " ",
                 CHOOSE i \in 1..Len(s) : s[i] # " " /\ \A j \in (i + 1)..Len(s) : s[j] = " ")

\* String.prototype.startsWith
startsWith(s, p) == Len(p) <= Len(s) /\ \A j \in 1..Len(p) : s[j] = p[j]

\* String.prototype.endsWith
endsWith(s, p) ==
  Len(p) <= Len(s) /\ \A j \in 1..Len(p) : s[Len(s) - Len(p) + j] = p[j]

\* String.prototype.includes
includes(s, p) ==
  \E i \in 0..(Len(s) - Len(p)) : \A j \in 1..Len(p) : s[i + j] = p[j]

\* String.prototype.substring(0, n)
substring0(s, n) == SubSeq(s, 1, IF Len(s) < n THEN Len(s) ELSE n)

\* The order of the default Array.prototype.sort: by UTF-16 code units.
StrLess(a, b) ==
  \E i \in 1..(Len(b)) :
     /\ \A j \in 1..(i - 1) : j <= Len(a) /\ a[j] = b[j]
     /\ \/ i = Len(a) + 1
        \/ i <= Len(a) /\ charCodeAt(a[i]) < charCodeAt(b[i])

\* Array.prototype.sort() of an array holding the names of S (names are unique)
RECURSIVE sort(_)
sort(S) ==
  IF S = {} THEN <<>>
  ELSE LET m == CHOOSE x \in S : \A y \in S \ {x} : StrLess(x, y)
       IN  <<m>> \o sort(S \ {m})

\* Array.prototype.reverse
reverse(a) == [i \in 1..Len(a) |-> a[Len(a) + 1 - i]]

Digits == <<"0","1","2","3","4","5","6","7","8","9","a","b","c","d","e","f">>

\* Number.prototype.toString(radix) of a natural number
RECURSIVE toStringRadix(_, _)
toStringRadix(n, radix) ==
  IF n < radix THEN <<Digits[n + 1]>>
  ELSE toStringRadix(n \div radix, radix) \o <<Digits[(n % radix) + 1]>>

\* a natural number in decimal, as a template literal prints it
Dec(n) == toStringRadix(n, 10)

\* n in `width' digits of `radix', zero padded
RECURSIVE pad(_, _, _)
pad(n, radix, width) ==
  IF width = 0 THEN <<>>
  ELSE pad(n \div radix, radix, width - 1) \o <<Digits[(n % radix) + 1]>>

-----------------------------------------------------------------------------
(* hashString: a 32-bit integer, held as its two 16-bit halves <<high, low>> *)
(* in two's complement.                                                      *)

Half == 65536       \* 2^16
HourMs == 3600000   \* 1000 * 60 * 60

\* hash = ((hash << 5) - hash) + char; hash = hash & hash
hashStep(h, code) ==
  LET low  == 31 * h[2] + code
      high == 31 * h[1] + (low \div Half)
  IN  <<high % Half, low % Half>>

\* for (let i = 0; i < str.length; i++): the value of hash after the loop has
\* run over the characters lo..hi, entered with h (the range is cut in halves
\* to keep the evaluation shallow; the steps run in the order of the loop)
RECURSIVE hashLoop(_, _, _, _)
hashLoop(str, lo, hi, h) ==
  IF lo > hi THEN h
  ELSE IF lo = hi THEN hashStep(h, charCodeAt(str[lo]))
  ELSE LET mid   == (lo + hi) \div 2
           first == hashLoop(str, lo, mid, h)
       IN  IF first[1] >= 0 THEN hashLoop(str, mid + 1, hi, first) ELSE first

\* Math.abs of the 32-bit value
abs32(h) ==
  IF h[1] < Half \div 2 THEN h
  ELSE IF h[2] = 0 THEN <<(Half - h[1]) % Half, 0>>
  ELSE <<Half - 1 - h[1], Half - h[2]>>

\* Math.abs(hash).toString(16)
hashString(str) ==
  LET a == abs32(hashLoop(str, 1, Len(str), <<0, 0>>))
  IN  IF a[1] = 0 THEN toStringRadix(a[2], 16)
      ELSE toStringRadix(a[1], 16) \o pad(a[2], 16, 4)

-----------------------------------------------------------------------------
(* Names of cache files *)

\* new Date(ms).toISOString(), for a time on the first day of the epoch
toISOString(ms) ==
  <<"1","9","7","0","-","0","1","-","0","1","T">>
    \o pad(ms \div HourMs, 10, 2) \o <<":">>
    \o pad((ms \div 60000) % 60, 10, 2) \o <<":">>
    \o pad((ms \div 1000) % 60, 10, 2) \o <<".">>
    \o pad(ms % 1000, 10, 3) \o <<"Z">>

\* .replace(/[:.]/g, '-')
replaceColonDot(s) == [i \in 1..Len(s) |-> IF s[i] \in {":", "."} THEN "-" ELSE s[i]]

KeepChars == 50     \* query.substring(0, 50)

generateCacheFileName(ms, operation, database, query) ==
  LET timestamp == replaceColonDot(toISOString(ms))
      dbPrefix  == IF Truthy(database) THEN database \o <<"_">> ELSE <<>>
      queryHash == IF Truthy(query)
                   THEN <<"_">> \o hashString(substring0(query, KeepChars)) ELSE <<>>
  IN  timestamp \o <<"_">> \o dbPrefix \o operation \o queryHash
        \o <<".","j","s","o","n">>

generateCacheKey(operation, database, query) ==
  LET dbPrefix  == IF Truthy(database) THEN database \o <<"_">> ELSE <<>>
      queryHash == IF Truthy(query) THEN <<"_">> \o hashString(query) ELSE <<>>
  IN  dbPrefix \o operation \o queryHash

-----------------------------------------------------------------------------
(* The cache store *)

maxFileSize == 52428800   \* MCP_MYSQL_CACHE_MAX_SIZE default

\* JSON.stringify(cacheData, null, 2).length: a payload carries the length its
\* document serializes to
contentLength(cacheData) == cacheData.data.size

\* fs.promises.writeFile(filePath, content): creates the file or replaces its content
writeFile(fs, dir, name, ms, content) ==
  {f \in fs : ~(f.dir = dir /\ f.name = name)}
    \cup {[dir |-> dir, name |-> name, mtime |-> ms, content |-> content]}

\* what saveToCache puts in the file
cacheDataOf(ms, data, operation, database, query) ==
  [timestamp |-> ms,
   database  |-> IF Truthy(database) THEN database ELSE <<"s","e","r","v","e","r">>,
   operation |-> operation,
   query     |-> IF Truthy(query) THEN query ELSE <<"null">>,
   data      |-> data]

NoPath == <<>>

\* saveToCache: the file path it returns (NoPath for null) and the directories
\* and files it leaves
\* a faulty variant: the size of the serialized content is not checked
saveToCache_NoSizeCheck(data, operation, subDir, database, query) ==
  IF ~cacheEnabled \/ ~fsOk
  THEN [path |-> NoPath, dirs |-> dirs, files |-> files]
  ELSE [path  |-> <<subDir, generateCacheFileName(now, operation, database, query)>>,
        dirs  |-> dirs \cup {subDir},
        files |-> writeFile(files, subDir,
                            generateCacheFileName(now, operation, database, query), now,
                            cacheDataOf(now, data, operation, database, query))]

saveToCache(data, operation, subDir, database, query) ==
  IF ~cacheEnabled
  THEN [path |-> NoPath, dirs |-> dirs, files |-> files]
  ELSE IF ~fsOk  \* mkdir throws; the catch returns null
  THEN [path |-> NoPath, dirs |-> dirs, files |-> files]
  ELSE LET fileName  == generateCacheFileName(now, operation, database, query)
           cacheData == cacheDataOf(now, data, operation, database, query)
       IN  IF contentLength(cacheData) > maxFileSize
           THEN [path |-> NoPath, dirs |-> dirs \cup {subDir}, files |-> files]
           ELSE [path  |-> <<subDir, fileName>>,
                 dirs  |-> dirs \cup {subDir},
                 files |-> writeFile(files, subDir, fileName, now, cacheData)]

\* ageHours.toFixed(1), in tenths of an hour
toFixed1(ageMs) == (ageMs + (HourMs \div 20)) \div (HourMs \div 10)

Miss == [hit |-> FALSE]

\* the content of a file that was opened for writing and not yet written
Truncated == [truncated |-> TRUE]

\* a faulty variant: the TTL is not applied
expired_Never(ageMs, ttlHours) == FALSE

\* ageHours > ttlHours, with ageHours = (Date.now() - stats.mtime.getTime()) / 3600000
expired(ageMs, ttlHours) == ageMs > ttlHours * HourMs

\* a faulty variant: the sorted list is not reversed, the oldest name comes first
latestOf_NoReverse(matchingFiles) == sort(matchingFiles)[1]

\* matchingFiles.sort().reverse()[0]
latestOf(matchingFiles) == reverse(sort(matchingFiles))[1]

\* readFromCache: Miss for null, else the data and the cacheInfo
\* the try block of readFromCache
readFromCacheTry(operation, subDir, database, query, ttlHours) ==
  IF ~fsOk THEN Miss  \* access throws
  ELSE IF subDir \notin dirs THEN Miss
  ELSE LET cacheKey == generateCacheKey(operation, database, query)
           names    == {f.name : f \in {g \in files : g.dir = subDir}}
           matchingFiles == {file \in names :
                               includes(file, cacheKey)
                                 /\ endsWith(file, <<".","j","s","o","n">>)}
       IN  IF matchingFiles = {} THEN Miss
           ELSE LET latestFile == latestOf(matchingFiles)
                    stats == CHOOSE f \in files : f.dir = subDir /\ f.name = latestFile
                    ageMs == now - stats.mtime
                IN  IF expired(ageMs, ttlHours) THEN Miss
                    ELSE IF stats.content = Truncated THEN Miss  \* JSON.parse throws
                    ELSE [hit      |-> TRUE,
                          data     |-> stats.content.data,
                          filePath |-> <<subDir, latestFile>>,
                          age      |-> toFixed1(ageMs),
                          ttl      |-> ttlHours]

\* a faulty variant: the enabled flag is not consulted
readFromCache_IgnoreDisabled(operation, subDir, database, query, ttlHours) ==
  readFromCacheTry(operation, subDir, database, query, ttlHours)

readFromCache(operation, subDir, database, query, ttlHours) ==
  IF ~cacheEnabled THEN Miss
  ELSE readFromCacheTry(operation, subDir, database, query, ttlHours)

-----------------------------------------------------------------------------
(* Values the operations are called with *)

OpQuery     == <<"q","u","e","r","y">>
OpTable     == <<"t","a","b","l","e","-","s","c","h","e","m","a">>
OpOverview  == <<"d","a","t","a","b","a","s","e","-","o","v","e","r","v","i","e","w">>
OpDiscovery == <<"d","a","t","a","b","a","s","e","-","d","i","s","c","o","v","e","r","y">>

\* `queries/${new Date().toISOString().split('T')[0]}`, on the first day of the epoch
DirQueries   == "queries/1970-01-01"
DirSchema    == "schema-snapshots"
DirDiscovery == "reports/discovery-reports"

DbB  == <<"b">>
DbZb == <<"z","b">>

SqlSelect1 == <<"S","E","L","E","C","T"," ","1">>
\* SELECT id, name FROM customers WHERE signup_year = 2024  (55 characters)
SqlLong ==
  <<"S","E","L","E","C","T"," ","i","d",","," ","n","a","m","e"," ","F","R","O","M",
    " ","c","u","s","t","o","m","e","r","s"," ","W","H","E","R","E"," ","s","i","g",
    "n","u","p","_","y","e","a","r"," ","="," ","2","0","2","4">>

Idle  == [tool |-> "none"]
NoRead == [did |-> FALSE]
NoIo  == [connects |-> 0, executed |-> <<>>, failed |-> FALSE, wrote |-> NoPath, read |-> NoRead]
\* this.connection: whether it is set, the database it was opened for, and the
\* connections it took the place of (none of them is ended by the code)
NoConn == [open |-> FALSE, database |-> Undefined, replaced |-> 0]
NoLast == [tool |-> "none"]
NoPre == [files |-> {}, dirs |-> {}, conn |-> NoConn, last |-> NoLast]

Writers == {1, 2}

Init ==
  /\ now = 0
  /\ cacheEnabled \in BOOLEAN
  /\ fsOk = TRUE
  /\ dirs = {}
  /\ files = {}
  /\ configDb \in {Undefined, DbB}
  /\ connection = NoConn
  /\ call = Idle
  /\ io = NoIo
  /\ response = Miss
  /\ pre = NoPre
  /\ last = NoLast
  /\ ncalls = 0
  /\ wpc = [w \in Writers |-> "idle"]
  /\ wname = [w \in Writers |-> NoPath]
  /\ wdata = [w \in Writers |-> Idle]

-----------------------------------------------------------------------------
(* The clock *)

Advance(ms) ==
  /\ now' = now + ms
  /\ call' = Idle /\ io' = NoIo /\ response' = Miss /\ pre' = NoPre
  /\ UNCHANGED <<cacheEnabled, fsOk, dirs, files, configDb, connection, last, ncalls,
                 wpc, wname, wdata>>

-----------------------------------------------------------------------------
(* The cache operations on their own: saveToCache and readFromCache called   *)
(* with any operation, sub-directory, scope and fingerprint                  *)

CacheTargets   == {<<OpQuery, DirQueries>>}
CacheDatabases == {DbB, DbZb}
CacheQueries   == {SqlSelect1, SqlLong}
CacheTtls      == {1, 2}
Payloads == {[id |-> 1, size |-> 100], [id |-> 2, size |-> 100],
             [id |-> 3, size |-> maxFileSize + 1]}

CacheSave(data, operation, subDir, database, query) ==
  /\ ncalls < MaxSaves
  /\ LET r == saveToCache(data, operation, subDir, database, query)
     IN  /\ dirs' = r.dirs
         /\ files' = r.files
         /\ response' = [path |-> r.path]
  /\ call' = [tool |-> "save", operation |-> operation, subDir |-> subDir,
              database |-> database, query |-> query, data |-> data]
  /\ pre' = [files |-> files, dirs |-> dirs, conn |-> connection, last |-> last]
  /\ ncalls' = ncalls + 1
  /\ UNCHANGED <<now, cacheEnabled, fsOk, configDb, connection, io, last, wpc, wname,
                 wdata>>

CacheRead(operation, subDir, database, query, ttlHours) ==
  /\ response' = readFromCache(operation, subDir, database, query, ttlHours)
  /\ call' = [tool |-> "read", operation |-> operation, subDir |-> subDir,
              database |-> database, query |-> query, ttl |-> ttlHours]
  /\ pre' = [files |-> files, dirs |-> dirs, conn |-> connection, last |-> last]
  /\ UNCHANGED <<now, cacheEnabled, fsOk, dirs, files, configDb, connection, io, last, ncalls,
                 wpc, wname, wdata>>

CacheAdvanceMs == now % HourMs < MaxMs /\ Advance(1)

CacheAdvanceHour == now \div HourMs < CacheMaxHours /\ Advance(HourMs)

CacheInit == Init /\ configDb = Undefined

CacheNext ==
  \/ \E t \in CacheTargets, db \in CacheDatabases, q \in CacheQueries, d \in Payloads :
       CacheSave(d, t[1], t[2], db, q)
  \/ \E t \in CacheTargets, db \in CacheDatabases, q \in CacheQueries, h \in CacheTtls :
       CacheRead(t[1], t[2], db, q, h)
  \/ CacheAdvanceMs
  \/ CacheAdvanceHour

SpecCache == CacheInit /\ [][CacheNext]_vars

-----------------------------------------------------------------------------
(* The connection handle *)

ConnectOutcomes == {"ok", "refused", "pingFailed"}

\* database || this.config.database
targetDbOf(database) == IF Truthy(database) THEN database ELSE configDb

\* !this.connection || (targetDb && this.connection.config.database !== targetDb)
needsConnection(database) ==
  \/ ~connection.open
  \/ Truthy(targetDbOf(database)) /\ connection.database # targetDbOf(database)

\* createConnection: whether it returns (ok) or throws, the handle it leaves in
\* this.connection and the connections it opened.  `outcome' is what the server
\* answers when a connection is attempted: mysql.createConnection rejects
\* ("refused"), or resolves and ping() then rejects ("pingFailed"), or both resolve.
createConnection(database, outcome) ==
  IF ~needsConnection(database)
  THEN [ok |-> TRUE, conn |-> connection, connects |-> 0]
  ELSE IF outcome = "refused"
  THEN [ok |-> FALSE, conn |-> connection, connects |-> 1]
  ELSE [ok       |-> outcome = "ok",
        conn     |-> [open |-> TRUE, database |-> targetDbOf(database),
                      replaced |-> connection.replaced + (IF connection.open THEN 1 ELSE 0)],
        connects |-> 1]

-----------------------------------------------------------------------------
(* mysql_query *)

MaxQueryLength == 10000

readOnlyPrefixes ==
  {<<"s","e","l","e","c","t">>, <<"s","h","o","w">>,
   <<"d","e","s","c","r","i","b","e">>, <<"e","x","p","l","a","i","n">>,
   <<"d","e","s","c">>}

isReadOnlyQuery(query) ==
  LET trimmed == toLowerCase(trim(query))
  IN  \E prefix \in readOnlyPrefixes : startsWith(trimmed, prefix)

SqlDrop == <<"D","R","O","P"," ","T","A","B","L","E"," ","x">>
SqlMulti ==
  <<"S","E","L","E","C","T"," ","1",";"," ","D","R","O","P"," ","T","A","B","L","E",
    " ","x">>
SqlShowPadded == <<" "," ","S","h","o","w"," ","T","a","b","l","e","s"," ">>
\* SELECT 1 followed by 9993 more digits: 10001 characters
SqlTooLong == SqlSelect1 \o [i \in 1..(MaxQueryLength - 7) |-> "1"]

\* a statement whose result serializes to more than maxFileSize characters
SqlBig == <<"S","E","L","E","C","T"," ","*"," ","F","R","O","M"," ","b","i","g">>

Statements == {SqlSelect1, SqlDrop, SqlMulti, SqlShowPadded, SqlTooLong, SqlBig}

\* the length of the serialized result of a statement
resultSizeOf(query) == IF query = SqlBig THEN maxFileSize + 1 ELSE 100

\* isReadOnlyQuery of each statement of the model, computed once
readOnlyOf == [q \in Statements |-> isReadOnlyQuery(q)]

ErrorResult(message) == [kind |-> "error", error |-> message]

\* the text result of a live call: the document, and the cache note if it was cached
LiveResult(doc, path) ==
  [kind |-> "document", doc |-> doc,
   cache |-> IF path = NoPath THEN [from |-> "none"]
             ELSE [from |-> "written", filePath |-> path]]

\* the text result of a call answered from the cache: {...cached.data, cache: cached.cacheInfo}
CachedResult(cached) ==
  [kind |-> "document", doc |-> cached.data,
   cache |-> [from |-> "cache", filePath |-> cached.filePath, age |-> cached.age,
              ttl |-> cached.ttl]]

\* the statement record of connection.execute(sql)
Stmt(kind, sql) == [kind |-> kind, sql |-> sql]

\* a faulty variant: the connection is opened before the statement is validated (as
\* handleAnalyzeTables does)
handleQuery_ConnectFirst(query, database, outcome, execOk) ==
  LET c == createConnection(database, outcome)
  IN  [conn |-> c.conn, dirs |-> dirs, files |-> files,
       response |-> IF ~c.ok THEN ErrorResult("CannotConnect")
                    ELSE IF ~readOnlyOf[query] THEN ErrorResult("NotReadOnly")
                    ELSE ErrorResult("QueryTooLong"),
       io |-> [NoIo EXCEPT !.connects = c.connects]]

\* a faulty variant: a failure is swallowed and an empty document is returned
handleQuery_Swallow(query, database, outcome, execOk) ==
  LET c == createConnection(database, outcome)
  IN  [conn |-> c.conn, dirs |-> dirs, files |-> files,
       response |-> LiveResult([sql |-> query, size |-> 0], NoPath),
       io |-> [NoIo EXCEPT !.connects = c.connects,
                           !.executed = <<Stmt("user", query)>>,
                           !.failed = ~execOk]]

\* handleQuery: what the call returns and what it leaves behind
handleQuery(query, database, outcome, execOk) ==
  LET none == [conn |-> connection, dirs |-> dirs, files |-> files]
  IN
  IF ~readOnlyOf[query]
  THEN none @@ [response |-> ErrorResult("NotReadOnly"), io |-> NoIo]
  ELSE IF Len(query) > MaxQueryLength
  THEN none @@ [response |-> ErrorResult("QueryTooLong"), io |-> NoIo]
  ELSE
  LET c == createConnection(database, outcome)
  IN
  IF ~c.ok
  THEN [conn |-> c.conn, dirs |-> dirs, files |-> files,
        response |-> ErrorResult("CannotConnect"),
        io |-> [NoIo EXCEPT !.connects = c.connects]]
  ELSE IF ~execOk
  THEN [conn |-> c.conn, dirs |-> dirs, files |-> files,
        response |-> ErrorResult("QueryFailed"),
        io |-> [NoIo EXCEPT !.connects = c.connects,
                            !.executed = <<Stmt("user", query)>>,
                            !.failed = TRUE]]
  ELSE
  LET resultData == [sql |-> query, size |-> resultSizeOf(query)]
      saved == saveToCache(resultData, OpQuery, DirQueries, database, query)
  IN  [conn |-> c.conn, dirs |-> saved.dirs, files |-> saved.files,
       response |-> LiveResult(resultData, saved.path),
       io |-> [NoIo EXCEPT !.connects = c.connects,
                           !.executed = <<Stmt("user", query)>>,
                           !.wrote = saved.path]]

\* a tool call: the handler's result becomes the new state
Finish(tool, args, r) ==
  /\ connection' = r.conn
  /\ dirs' = r.dirs
  /\ files' = r.files
  /\ response' = r.response
  /\ io' = r.io
  /\ call' = [tool |-> tool, args |-> args]
  /\ last' = [tool |-> tool, args |-> args, at |-> now, wrote |-> r.io.wrote,
               ok |-> r.response.kind = "document"]
  /\ pre' = [files |-> files, dirs |-> dirs, conn |-> connection, last |-> last]
  /\ ncalls' = ncalls + 1
  /\ UNCHANGED <<now, cacheEnabled, fsOk, configDb, wpc, wname, wdata>>

HandleQuery(query, database, outcome, execOk) ==
  /\ ncalls < QueryMaxCalls
  /\ outcome = "ok" \/ (readOnlyOf[query] /\ Len(query) <= MaxQueryLength
                          /\ needsConnection(database))
  /\ execOk \/ (readOnlyOf[query] /\ Len(query) <= MaxQueryLength
                  /\ createConnection(database, outcome).ok)
  /\ Finish("mysql_query", [query |-> query, database |-> database],
            handleQuery(query, database, outcome, execOk))

QueryAdvanceMs == now % HourMs < MaxMs /\ Advance(1)

QueryAdvanceHour == now \div HourMs < QueryMaxHours /\ Advance(HourMs)

QueryNext ==
  \/ \E q \in Statements, db \in {Undefined, DbZb}, o \in ConnectOutcomes,
        e \in BOOLEAN : HandleQuery(q, db, o, e)
  \/ QueryAdvanceMs
  \/ QueryAdvanceHour

SpecQuery == Init /\ [][QueryNext]_vars

-----------------------------------------------------------------------------
(* mysql_schema *)

boolText(b) == IF b THEN <<"t","r","u","e">> ELSE <<"f","a","l","s","e">>

\* String.prototype.split('.', 2)
splitDot2(s) ==
  LET dots == {i \in 1..Len(s) : s[i] = "."}
      d1 == CHOOSE i \in dots : \A j \in dots : i <= j
      rest == {i \in dots : i > d1}
      d2 == IF rest = {} THEN Len(s) + 1 ELSE CHOOSE i \in rest : \A j \in rest : i <= j
  IN  IF dots = {} THEN <<s>> ELSE <<SubSeq(s, 1, d1 - 1), SubSeq(s, d1 + 1, d2 - 1)>>

TableT == <<"t">>
TableZbT == <<"z","b",".","t">>

\* Math.min(args.sample_size || 100, 1000)
sampleSizeOf(sample_size) ==
  LET given == IF sample_size = 0 THEN 100 ELSE sample_size
  IN  IF given < 1000 THEN given ELSE 1000

\* the statements getDetailedTableSchema sends on a cache miss, in order
tableStatements(includeRelationships, includeSampleData) ==
  <<Stmt("schema", "DESCRIBE"), Stmt("schema", "SHOW INDEX")>>
  \o (IF includeRelationships
      THEN <<Stmt("catalog", "foreignKeys"), Stmt("catalog", "referencedBy"),
             Stmt("catalog", "constraints")>>
      ELSE <<>>)
  \o (IF includeSampleData
      THEN <<Stmt("sample", "SELECT * LIMIT"), Stmt("sample", "SELECT COUNT(*)")>>
      ELSE <<>>)

\* the statements getDatabaseOverview sends on a cache miss, in order
overviewStatements(includeRelationships) ==
  <<Stmt("schema", "SHOW TABLES")>>
  \o (IF includeRelationships
      THEN <<Stmt("catalog", "relationships"), Stmt("catalog", "tableSizes")>>
      ELSE <<>>)

\* the statements sent when the failAt-th one throws (0: none does)
sentOf(statements, failAt) ==
  IF failAt = 0 THEN statements ELSE SubSeq(statements, 1, failAt)

getDetailedTableSchema(conn, connects, tableName, databaseName, includeRelationships, includeSampleData, sampleSize, failAt) ==
  LET cacheKey == <<"t","a","b","l","e","-">> \o tableName \o <<"-">>
                  \o boolText(includeRelationships) \o <<"-">>
                  \o boolText(includeSampleData) \o <<"-">> \o Dec(sampleSize)
      cached == readFromCache(OpTable, DirSchema, databaseName, cacheKey, 1)
      readIo == [NoIo EXCEPT !.connects = connects,
                             !.read = [did |-> TRUE, result |-> cached]]
      statements == tableStatements(includeRelationships, includeSampleData)
  IN
  IF cached.hit
  THEN [conn |-> conn, dirs |-> dirs, files |-> files,
        response |-> CachedResult(cached), io |-> readIo]
  ELSE IF failAt # 0
  THEN [conn |-> conn, dirs |-> dirs, files |-> files,
        response |-> ErrorResult("QueryFailed"),
        io |-> [readIo EXCEPT !.executed = sentOf(statements, failAt),
                       !.failed = TRUE]]
  ELSE
  LET schemaData == [table |-> tableName, relationships |-> includeRelationships,
                     sampleData |-> includeSampleData, size |-> 100]
      saved == saveToCache(schemaData, OpTable, DirSchema, databaseName,
                           <<"t","a","b","l","e","-">> \o tableName)
  IN  [conn |-> conn, dirs |-> saved.dirs, files |-> saved.files,
       response |-> LiveResult(schemaData, saved.path),
       io |-> [readIo EXCEPT !.executed = statements, !.wrote = saved.path]]

getDatabaseOverview(conn, connects, databaseName, includeRelationships, failAt) ==
  LET cacheKey == <<"o","v","e","r","v","i","e","w","-">> \o boolText(includeRelationships)
      cached == readFromCache(OpOverview, DirSchema, databaseName, cacheKey, 2)
      readIo == [NoIo EXCEPT !.connects = connects,
                             !.read = [did |-> TRUE, result |-> cached]]
      statements == overviewStatements(includeRelationships)
  IN
  IF cached.hit
  THEN [conn |-> conn, dirs |-> dirs, files |-> files,
        response |-> CachedResult(cached), io |-> readIo]
  ELSE IF failAt # 0
  THEN [conn |-> conn, dirs |-> dirs, files |-> files,
        response |-> ErrorResult("QueryFailed"),
        io |-> [readIo EXCEPT !.executed = sentOf(statements, failAt),
                       !.failed = TRUE]]
  ELSE IF ~includeRelationships
  THEN [conn |-> conn, dirs |-> dirs, files |-> files,
        response |-> LiveResult([tables |-> TRUE, size |-> 100], NoPath),
        io |-> [readIo EXCEPT !.executed = statements]]
  ELSE
  LET overviewData == [database |-> IF Truthy(databaseName) THEN databaseName ELSE configDb,
                       tables |-> TRUE, relationships |-> TRUE, size |-> 100]
      saved == saveToCache(overviewData, OpOverview, DirSchema, databaseName,
                           <<"f","u","l","l","-","o","v","e","r","v","i","e","w">>)
  IN  [conn |-> conn, dirs |-> saved.dirs, files |-> saved.files,
       response |-> LiveResult(overviewData, saved.path),
       io |-> [readIo EXCEPT !.executed = statements, !.wrote = saved.path]]

handleSchema(args, outcome, failAt) ==
  LET c == createConnection(args.database, outcome)
      includeRelationships == args.include_relationships # "false"
      includeSampleData == args.include_sample_data = "true"
      sampleSize == sampleSizeOf(args.sample_size)
      targetDatabase == IF Truthy(args.database) THEN args.database ELSE configDb
  IN
  IF ~c.ok
  THEN [conn |-> c.conn, dirs |-> dirs, files |-> files,
        response |-> ErrorResult("CannotConnect"),
        io |-> [NoIo EXCEPT !.connects = c.connects]]
  ELSE IF Truthy(args.table)
  THEN LET parts == splitDot2(args.table)
           tableName == IF includes(args.table, <<".">>) THEN parts[2] ELSE args.table
           dbName == IF includes(args.table, <<".">>) THEN parts[1] ELSE targetDatabase
       IN  getDetailedTableSchema(c.conn, c.connects, tableName, dbName,
                                  includeRelationships, includeSampleData,
                                  sampleSize, failAt)
  ELSE getDatabaseOverview(c.conn, c.connects, targetDatabase, includeRelationships,
                           failAt)

\* how many statements a call with these arguments sends on a cache miss
schemaStatementCount(args) ==
  IF Truthy(args.table)
  THEN Len(tableStatements(args.include_relationships # "false",
                           args.include_sample_data = "true"))
  ELSE Len(overviewStatements(args.include_relationships # "false"))

SchemaDefaults ==
  [database |-> Undefined, table |-> Undefined, include_relationships |-> "undefined",
   include_sample_data |-> "undefined", sample_size |-> 0]

SchemaArgs ==
  {SchemaDefaults,
   [SchemaDefaults EXCEPT !.include_relationships = "false"],
   [SchemaDefaults EXCEPT !.database = DbB],
   [SchemaDefaults EXCEPT !.table = TableT],
   [SchemaDefaults EXCEPT !.table = TableT, !.include_sample_data = "true",
                          !.sample_size = 5],
   [SchemaDefaults EXCEPT !.table = TableZbT, !.include_relationships = "false"]}

HandleSchema(args, outcome, failAt) ==
  /\ ncalls < SchemaMaxCalls
  /\ outcome = "ok" \/ needsConnection(args.database)
  /\ failAt \in 0..schemaStatementCount(args)
  /\ failAt = 0 \/ (createConnection(args.database, outcome).ok
                      /\ handleSchema(args, outcome, 0).response.cache.from # "cache")
  /\ Finish("mysql_schema", args, handleSchema(args, outcome, failAt))

SchemaAdvanceMs == now % HourMs < MaxMs /\ Advance(1)

SchemaAdvanceHour == now \div HourMs < SchemaMaxHours /\ Advance(HourMs)

SchemaNext ==
  \/ \E a \in SchemaArgs, o \in ConnectOutcomes, k \in 0..7 : HandleSchema(a, o, k)
  \/ SchemaAdvanceMs
  \/ SchemaAdvanceHour

SpecSchema == Init /\ [][SchemaNext]_vars

-----------------------------------------------------------------------------
(* mysql_discover_analytics *)

\* Array.prototype.sort() of an array of distinct strings, then join('-')
RECURSIVE join(_)
join(a) == IF Len(a) = 0 THEN <<>>
           ELSE IF Len(a) = 1 THEN a[1]
           ELSE a[1] \o <<"-">> \o join(Tail(a))

sortedJoin(databases) == join(sort({databases[i] : i \in DOMAIN databases}))

\* a number given as decimal text; values of FarPage and beyond are taken as FarPage
FarPage == 1000000
RECURSIVE digitsValue(_)
digitsValue(d) ==
  IF Len(d) = 0 THEN 0
  ELSE LET upper == digitsValue(SubSeq(d, 1, Len(d) - 1))
           digit == (CHOOSE i \in 1..10 : Digits[i] = d[Len(d)]) - 1
       IN  IF upper * 10 + digit >= FarPage THEN FarPage ELSE upper * 10 + digit

\* the number a decimal text stands for
numberOf(d) == IF Len(d) > 0 /\ d[1] = "-" THEN 0 - digitsValue(Tail(d)) ELSE digitsValue(d)

InformationSchema == <<"i","n","f","o","r","m","a","t","i","o","n","_","s","c","h","e","m","a">>
\* the rows SHOW DATABASES returns, and the tables information_schema lists per database
ServerDatabases == <<DbB, InformationSchema, DbZb>>
TablesPerDb == 1
SystemDatabases ==
  {InformationSchema, <<"p","e","r","f","o","r","m","a","n","c","e","_","s","c","h","e","m","a">>,
   <<"m","y","s","q","l">>, <<"s","y","s">>}

filterSystem(rows) == SelectSeq(rows, LAMBDA db : db \notin SystemDatabases)

ceilDiv(a, b) == (a + b - 1) \div b
min(a, b) == IF a < b THEN a ELSE b
max(a, b) == IF a > b THEN a ELSE b

\* Array.prototype.slice(from, to): a negative index counts from the end
slice(a, from, to) ==
  LET k == IF from < 0 THEN max(Len(a) + from, 0) ELSE min(from, Len(a))
      final == IF to < 0 THEN max(Len(a) + to, 0) ELSE min(to, Len(a))
  IN  IF k >= final THEN <<>> ELSE SubSeq(a, k + 1, final)

\* a faulty variant: pages are counted from zero
paginate_ZeroBased(targetDatabases, page, page_size) ==
  LET pagedDatabases == slice(targetDatabases, page * page_size,
                              min(page * page_size + page_size, Len(targetDatabases)))
  IN  [currentPage |-> page, totalPages |-> ceilDiv(Len(targetDatabases), page_size),
       pageSize |-> page_size, totalDatabases |-> Len(targetDatabases),
       currentPageDatabases |-> Len(pagedDatabases),
       hasNextPage |-> page < ceilDiv(Len(targetDatabases), page_size),
       hasPreviousPage |-> page > 1,
       pagedDatabases |-> pagedDatabases]

\* the pagination window of handleDiscoverAnalytics
paginate(targetDatabases, page, page_size) ==
  LET totalDatabases == Len(targetDatabases)
      totalPages == ceilDiv(totalDatabases, page_size)
      startIndex == (page - 1) * page_size
      endIndex == min(startIndex + page_size, totalDatabases)
      pagedDatabases == slice(targetDatabases, startIndex, endIndex)
  IN  [currentPage |-> page, totalPages |-> totalPages, pageSize |-> page_size,
       totalDatabases |-> totalDatabases,
       currentPageDatabases |-> Len(pagedDatabases),
       hasNextPage |-> page < totalPages,
       hasPreviousPage |-> page > 1,
       pagedDatabases |-> pagedDatabases]

\* the statements analyzeSingleDatabase sends, in order
analyzeSingleDatabase(databaseName, detailLevel, maxTables, sampleDataLimit) ==
  LET tables == min(TablesPerDb, maxTables)
      perTable == (IF detailLevel # "summary"
                   THEN <<Stmt("catalog", "information_schema.COLUMNS")>>
                        \o (IF detailLevel = "full" /\ sampleDataLimit > 0
                            THEN <<Stmt("sample", "SELECT * LIMIT")>> ELSE <<>>)
                   ELSE <<>>)
      RECURSIVE each(_)
      each(n) == IF n = 0 THEN <<>> ELSE perTable \o each(n - 1)
  IN  <<Stmt("catalog", "information_schema.TABLES"),
        Stmt("catalog", "information_schema.KEY_COLUMN_USAGE")>> \o each(tables)

RECURSIVE analyzeAll(_, _, _, _)
analyzeAll(dbs, detailLevel, maxTables, sampleDataLimit) ==
  IF Len(dbs) = 0 THEN <<>>
  ELSE analyzeSingleDatabase(dbs[1], detailLevel, maxTables, sampleDataLimit)
       \o analyzeAll(Tail(dbs), detailLevel, maxTables, sampleDataLimit)

detailText(detail_level) ==
  IF detail_level = "summary" THEN <<"s","u","m","m","a","r","y">>
  ELSE IF detail_level = "detailed" THEN <<"d","e","t","a","i","l","e","d">>
  ELSE <<"f","u","l","l">>

FocusGeneral == <<"g","e","n","e","r","a","l">>
FocusSales == <<"s","a","l","e","s","_","a","n","a","l","y","t","i","c","s">>

\* the databases argument when the caller gives none
NoDatabases == <<Undefined>>

\* the cache fingerprint of a discovery call
discoveryCacheKey(a) ==
  a.focus_area \o <<"-">> \o detailText(a.detail_level) \o <<"-","p">> \o a.page
  \o <<"_">> \o Dec(a.page_size) \o <<"-","t">> \o Dec(a.max_tables_per_db)
  \o <<"-","s">> \o Dec(a.sample_data_limit)

discoverySortedDbs(a) ==
  IF a.databases # NoDatabases THEN sortedJoin(a.databases) ELSE <<"a","l","l">>

\* the catalog and sample statements a call sends on a cache miss, in order
discoveryStatements(a) ==
  LET targetDatabases == IF a.databases # NoDatabases THEN a.databases
                         ELSE filterSystem(ServerDatabases)
      window == paginate(targetDatabases, numberOf(a.page), a.page_size)
  IN  (IF a.databases # NoDatabases THEN <<>> ELSE <<Stmt("catalog", "SHOW DATABASES")>>)
      \o analyzeAll(window.pagedDatabases, a.detail_level,
                    a.max_tables_per_db, a.sample_data_limit)

\* a faulty variant: a statement that fails is skipped and the report is returned and
\* cached all the same
handleDiscoverAnalytics_SkipFailed(a, outcome, failAt) ==
  LET c == createConnection(Undefined, outcome)
      sortedDbs == discoverySortedDbs(a)
      cacheKey == discoveryCacheKey(a)
      cached == readFromCache(OpDiscovery, DirDiscovery, sortedDbs, cacheKey, 4)
      readIo == [NoIo EXCEPT !.connects = c.connects,
                             !.read = [did |-> TRUE, result |-> cached]]
      targetDatabases == IF a.databases # NoDatabases THEN a.databases
                         ELSE filterSystem(ServerDatabases)
      window == paginate(targetDatabases, numberOf(a.page), a.page_size)
      statements == discoveryStatements(a)
  IN
  IF ~c.ok
  THEN [conn |-> c.conn, dirs |-> dirs, files |-> files,
        response |-> ErrorResult("CannotConnect"),
        io |-> [NoIo EXCEPT !.connects = c.connects]]
  ELSE IF cached.hit
  THEN [conn |-> c.conn, dirs |-> dirs, files |-> files,
        response |-> CachedResult(cached), io |-> readIo]
  ELSE
  LET discovery ==
        [pagination |-> [currentPage |-> a.page, totalPages |-> window.totalPages,
                         pageSize |-> a.page_size,
                         totalDatabases |-> window.totalDatabases,
                         currentPageDatabases |-> window.currentPageDatabases,
                         hasNextPage |-> window.hasNextPage,
                         hasPreviousPage |-> window.hasPreviousPage],
         executedQueries |-> <<Stmt("catalog", "SHOW DATABASES")>>
                             \o analyzeAll(window.pagedDatabases, a.detail_level,
                                           a.max_tables_per_db, a.sample_data_limit),
         allDatabases |-> targetDatabases,
         analyzedDatabases |-> window.pagedDatabases,
         focusArea |-> a.focus_area,
         discoveryTimestamp |-> now,
         crossDatabase |-> a.cross_database_analysis /\ Len(targetDatabases) > 1,
         recommendations |-> a.include_recommendations,
         size |-> 100]
      saved == saveToCache(discovery, OpDiscovery, DirDiscovery, sortedDbs, cacheKey)
  IN  [conn |-> c.conn, dirs |-> saved.dirs, files |-> saved.files,
       response |-> LiveResult(discovery, saved.path),
       io |-> [readIo EXCEPT !.executed = sentOf(statements, failAt),
                             !.failed = failAt # 0, !.wrote = saved.path]]

handleDiscoverAnalytics(a, outcome, failAt) ==
  LET c == createConnection(Undefined, outcome)
      sortedDbs == discoverySortedDbs(a)
      cacheKey == discoveryCacheKey(a)
      cached == readFromCache(OpDiscovery, DirDiscovery, sortedDbs, cacheKey, 4)
      readIo == [NoIo EXCEPT !.connects = c.connects,
                             !.read = [did |-> TRUE, result |-> cached]]
      targetDatabases == IF a.databases # NoDatabases THEN a.databases
                         ELSE filterSystem(ServerDatabases)
      window == paginate(targetDatabases, numberOf(a.page), a.page_size)
      statements == discoveryStatements(a)
  IN
  IF ~c.ok
  THEN [conn |-> c.conn, dirs |-> dirs, files |-> files,
        response |-> ErrorResult("CannotConnect"),
        io |-> [NoIo EXCEPT !.connects = c.connects]]
  ELSE IF cached.hit
  THEN [conn |-> c.conn, dirs |-> dirs, files |-> files,
        response |-> CachedResult(cached), io |-> readIo]
  ELSE IF failAt # 0
  THEN [conn |-> c.conn, dirs |-> dirs, files |-> files,
        response |-> ErrorResult("QueryFailed"),
        io |-> [readIo EXCEPT !.executed = sentOf(statements, failAt),
                       !.failed = TRUE]]
  ELSE
  LET discovery ==
        [pagination |-> [currentPage |-> a.page, totalPages |-> window.totalPages,
                         pageSize |-> a.page_size,
                         totalDatabases |-> window.totalDatabases,
                         currentPageDatabases |-> window.currentPageDatabases,
                         hasNextPage |-> window.hasNextPage,
                         hasPreviousPage |-> window.hasPreviousPage],
         executedQueries |-> <<Stmt("catalog", "SHOW DATABASES")>>
                             \o analyzeAll(window.pagedDatabases, a.detail_level,
                                           a.max_tables_per_db, a.sample_data_limit),
         allDatabases |-> targetDatabases,
         analyzedDatabases |-> window.pagedDatabases,
         focusArea |-> a.focus_area,
         discoveryTimestamp |-> now,
         crossDatabase |-> a.cross_database_analysis /\ Len(targetDatabases) > 1,
         recommendations |-> a.include_recommendations,
         size |-> 100]
      saved == saveToCache(discovery, OpDiscovery, DirDiscovery, sortedDbs, cacheKey)
  IN  [conn |-> c.conn, dirs |-> saved.dirs, files |-> saved.files,
       response |-> LiveResult(discovery, saved.path),
       io |-> [readIo EXCEPT !.executed = statements, !.wrote = saved.path]]

\* the defaults of the destructured arguments
DiscoveryDefaults ==
  [databases |-> NoDatabases, focus_area |-> FocusGeneral, include_recommendations |-> TRUE,
   cross_database_analysis |-> TRUE, detail_level |-> "summary",
   max_tables_per_db |-> 20, sample_data_limit |-> 3, page |-> <<"1">>, page_size |-> 5]

PageFar == <<"1","0","0","0","0","0","0","0","0","0","0","0","0">>

DiscoveryArgs ==
  {DiscoveryDefaults,
   [DiscoveryDefaults EXCEPT !.include_recommendations = FALSE],
   [DiscoveryDefaults EXCEPT !.databases = <<DbZb>>],
   [DiscoveryDefaults EXCEPT !.databases = <<DbZb, DbB>>],
   [DiscoveryDefaults EXCEPT !.databases = <<DbZb, DbB>>, !.detail_level = "full",
                             !.page_size = 1, !.page = <<"2">>],
   [DiscoveryDefaults EXCEPT !.focus_area = FocusSales, !.detail_level = "detailed",
                             !.max_tables_per_db = 100, !.sample_data_limit = 10,
                             !.page = PageFar, !.page_size = 10]}

HandleDiscoverAnalytics(a, outcome, failAt) ==
  /\ ncalls < DiscoveryMaxCalls
  /\ outcome = "ok" \/ needsConnection(Undefined)
  /\ failAt \in 0..Len(discoveryStatements(a))
  /\ failAt = 0 \/ (createConnection(Undefined, outcome).ok
                      /\ handleDiscoverAnalytics(a, outcome, 0).response.cache.from # "cache")
  /\ Finish("mysql_discover_analytics", a, handleDiscoverAnalytics(a, outcome, failAt))

DiscoveryAdvanceMs == now % HourMs < MaxMs /\ Advance(1)

DiscoveryAdvanceHour == now \div HourMs < MaxHours /\ Advance(HourMs)

DiscoveryNext ==
  \/ \E a \in DiscoveryArgs, o \in ConnectOutcomes, k \in 0..5 :
        HandleDiscoverAnalytics(a, o, k)
  \/ DiscoveryAdvanceMs
  \/ DiscoveryAdvanceHour

SpecDiscovery == Init /\ [][DiscoveryNext]_vars

-----------------------------------------------------------------------------
(* mysql_analyze_tables *)

RECURSIVE joinWith(_, _)
joinWith(a, sep) == IF Len(a) = 0 THEN <<>>
                    ELSE IF Len(a) = 1 THEN a[1]
                    ELSE a[1] \o sep \o joinWith(Tail(a), sep)

OpRelationships == <<"t","a","b","l","e","-","r","e","l","a","t","i","o","n","s","h","i","p","s">>
DirRelationships == "reports/relationship-analysis"

\* the statements sent for one table by each analysis
analysisStatements(analysis_type) ==
  IF analysis_type = "relationships"
  THEN <<Stmt("schema", "DESCRIBE"), Stmt("catalog", "foreignKeys"),
         Stmt("sample", "SELECT COUNT(*)")>>
  ELSE IF analysis_type = "user_behavior"
  THEN <<Stmt("schema", "DESCRIBE"), Stmt("sample", "SELECT * LIMIT 50")>>
  ELSE IF analysis_type = "data_flow"
  THEN <<Stmt("schema", "DESCRIBE"), Stmt("catalog", "foreignKeys"),
         Stmt("catalog", "referencedBy")>>
  ELSE <<>>

RECURSIVE analyzeTablesStatements(_, _)
analyzeTablesStatements(tables, analysis_type) ==
  IF Len(tables) = 0 THEN <<>>
  ELSE analysisStatements(analysis_type)
       \o analyzeTablesStatements(Tail(tables), analysis_type)

\* the tables argument when the caller gives none
NoTables == <<Undefined>>

handleAnalyzeTables(a, outcome, failAt) ==
  LET c == createConnection(Undefined, outcome)
      connected == [NoIo EXCEPT !.connects = c.connects]
      none == [conn |-> c.conn, dirs |-> dirs, files |-> files]
      statements == analyzeTablesStatements(a.tables, a.analysis_type)
  IN
  IF ~c.ok
  THEN none @@ [response |-> ErrorResult("CannotConnect"), io |-> connected]
  ELSE IF a.tables = NoTables \/ Len(a.tables) = 0
  THEN none @@ [response |-> ErrorResult("TablesRequired"), io |-> connected]
  ELSE IF a.analysis_type \notin {"relationships", "user_behavior", "data_flow"}
  THEN none @@ [response |-> ErrorResult("UnknownAnalysisType"), io |-> connected]
  ELSE IF failAt # 0
  THEN none @@ [response |-> ErrorResult("QueryFailed"),
                io |-> [connected EXCEPT !.executed = sentOf(statements, failAt),
                       !.failed = TRUE]]
  ELSE IF a.analysis_type = "relationships"
  THEN LET analysisData == [analysisType |-> a.analysis_type, tables |-> a.tables,
                            size |-> 100]
           saved == saveToCache(analysisData, OpRelationships, DirRelationships, Undefined,
                                <<"t","a","b","l","e","s","-">> \o joinWith(a.tables, <<"_">>))
       IN  [conn |-> c.conn, dirs |-> saved.dirs, files |-> saved.files,
            response |-> LiveResult(analysisData, saved.path),
            io |-> [connected EXCEPT !.executed = statements, !.wrote = saved.path]]
  ELSE none @@ [response |-> LiveResult([analysisType |-> a.analysis_type,
                                         tables |-> a.tables, size |-> 100], NoPath),
                io |-> [connected EXCEPT !.executed = statements]]

AnalyzeArgs ==
  {[tables |-> <<TableT>>, analysis_type |-> "relationships"],
   [tables |-> <<TableT, DbB>>, analysis_type |-> "user_behavior"],
   [tables |-> <<TableT>>, analysis_type |-> "data_flow"],
   [tables |-> <<TableT>>, analysis_type |-> "sales"],
   [tables |-> NoTables, analysis_type |-> "relationships"],
   [tables |-> <<>>, analysis_type |-> "relationships"]}

analyzeRuns(a) ==
  /\ a.tables # NoTables
  /\ a.analysis_type \in {"relationships", "user_behavior", "data_flow"}

HandleAnalyzeTables(a, outcome, failAt) ==
  /\ ncalls < ToolsMaxCalls
  /\ outcome = "ok" \/ needsConnection(Undefined)
  /\ failAt \in 0..(IF analyzeRuns(a)
                    THEN Len(analyzeTablesStatements(a.tables, a.analysis_type)) ELSE 0)
  /\ failAt = 0 \/ createConnection(Undefined, outcome).ok
  /\ Finish("mysql_analyze_tables", a, handleAnalyzeTables(a, outcome, failAt))

-----------------------------------------------------------------------------
(* The server with all its tools, restarted with the cache switched on or off,
   on a file system that may fail or hold a damaged file *)

Between ==
  /\ call' = Idle /\ io' = NoIo /\ response' = Miss /\ pre' = NoPre
  /\ UNCHANGED <<now, configDb, last, ncalls, wpc, wname, wdata>>

\* the process is started again: the constructor reads MCP_MYSQL_CACHE_ENABLED
Restart(enabled) ==
  /\ cacheEnabled # enabled
  /\ cacheEnabled' = enabled
  /\ connection' = NoConn
  /\ Between
  /\ UNCHANGED <<fsOk, dirs, files>>

\* the file system starts or stops failing
FsFlip ==
  /\ fsOk' = ~fsOk
  /\ Between
  /\ UNCHANGED <<cacheEnabled, connection, dirs, files>>

\* a stored file loses its content (it no longer parses as JSON)
Damage(f) ==
  /\ f \in files /\ f.content # Truncated
  /\ files' = writeFile(files, f.dir, f.name, f.mtime, Truncated)
  /\ Between
  /\ UNCHANGED <<cacheEnabled, fsOk, connection, dirs>>

ToolsSchemaArgs == {SchemaDefaults, [SchemaDefaults EXCEPT !.table = TableT]}

ToolsAdvanceMs == now % HourMs < MaxMs /\ Advance(1)

ToolsInit == Init /\ configDb = DbB

ToolsNext ==
  \/ \E q \in {SqlSelect1, SqlBig}, o \in ConnectOutcomes, e \in BOOLEAN :
        HandleQuery(q, Undefined, o, e)
  \/ \E a \in ToolsSchemaArgs, o \in ConnectOutcomes, k \in 0..7 : HandleSchema(a, o, k)
  \/ \E o \in ConnectOutcomes, k \in 0..5 : HandleDiscoverAnalytics(DiscoveryDefaults, o, k)
  \/ \E a \in AnalyzeArgs, o \in ConnectOutcomes, k \in 0..6 : HandleAnalyzeTables(a, o, k)
  \/ \E d \in Payloads : CacheSave(d, OpQuery, DirQueries, Undefined, SqlSelect1)
  \/ CacheRead(OpQuery, DirQueries, Undefined, SqlSelect1, 1)
  \/ \E e \in BOOLEAN : Restart(e)
  \/ FsFlip
  \/ \E f \in files : Damage(f)
  \/ ToolsAdvanceMs

SpecTools == ToolsInit /\ [][ToolsNext]_vars

-----------------------------------------------------------------------------
(* generateCacheKey applied to pairs of (operation, database, query) *)

Empty == <<>>
OpBQuery == <<"b","_","q","u","e","r","y">>

KeyTuples ==
  [operation : {OpQuery, OpBQuery},
   database : {Undefined, Empty, DbB},
   query : {Undefined, Empty, SqlSelect1, SqlLong}]

KeyInit ==
  /\ Init
  /\ configDb = Undefined /\ cacheEnabled

\* two tuples are chosen
KeyChoose(a, b) ==
  /\ call = Idle
  /\ call' = [tool |-> "keys-chosen", a |-> a, b |-> b]
  /\ UNCHANGED <<now, cacheEnabled, fsOk, dirs, files, configDb, connection, io, response,
                 pre, last, ncalls, wpc, wname, wdata>>

\* the key of each is generated
KeyGenerate ==
  /\ call.tool = "keys-chosen"
  /\ call' = [call EXCEPT !.tool = "keys"]
  /\ response' = [a |-> generateCacheKey(call.a.operation, call.a.database, call.a.query),
                  b |-> generateCacheKey(call.b.operation, call.b.database, call.b.query)]
  /\ UNCHANGED <<now, cacheEnabled, fsOk, dirs, files, configDb, connection, io, pre, last,
                 ncalls, wpc, wname, wdata>>

KeyNext ==
  \/ \E a, b \in KeyTuples : KeyChoose(a, b)
  \/ KeyGenerate

SpecKey == KeyInit /\ [][KeyNext]_vars

-----------------------------------------------------------------------------
(* The pagination window applied to lists of every length *)

\* a list of n databases, named by their position
listOf(n) == [i \in 1..n |-> i]

PaginationInit ==
  /\ Init
  /\ configDb = Undefined /\ cacheEnabled

PaginationChoose(n, page, page_size) ==
  /\ call = Idle
  /\ call' = [tool |-> "page-chosen", n |-> n, page |-> page, page_size |-> page_size]
  /\ UNCHANGED <<now, cacheEnabled, fsOk, dirs, files, configDb, connection, io, response,
                 pre, last, ncalls, wpc, wname, wdata>>

Paginate ==
  /\ call.tool = "page-chosen"
  /\ call' = [call EXCEPT !.tool = "paginate"]
  /\ response' = paginate(listOf(call.n), call.page, call.page_size)
  /\ UNCHANGED <<now, cacheEnabled, fsOk, dirs, files, configDb, connection, io, pre, last,
                 ncalls, wpc, wname, wdata>>

PaginationNext ==
  \/ \E n \in 0..MaxDatabases, page \in (0 - MaxNegativePage)..MaxPage, page_size \in 1..MaxPageSize :
        PaginationChoose(n, page, page_size)
  \/ Paginate

SpecPagination == PaginationInit /\ [][PaginationNext]_vars

-----------------------------------------------------------------------------
(* Table classification: classifyTableIntelligently and its use by the
   per-table loop of analyzeSingleDatabase.  A column is the row of
   information_schema.COLUMNS the classifier reads; confidence is kept in
   hundredths. *)
userKeywords ==
  <<<<"u","s","e","r">>,
    <<"c","u","s","t","o","m","e","r">>,
    <<"a","c","c","o","u","n","t">>,
    <<"p","e","r","s","o","n">>,
    <<"m","e","m","b","e","r">>,
    <<"c","l","i","e","n","t">>>>
timeTypes ==
  <<<<"t","i","m","e","s","t","a","m","p">>,
    <<"d","a","t","e","t","i","m","e">>,
    <<"d","a","t","e">>>>
timeKeywords ==
  <<<<"c","r","e","a","t","e","d">>,
    <<"u","p","d","a","t","e","d">>,
    <<"m","o","d","i","f","i","e","d">>,
    <<"d","e","l","e","t","e","d">>,
    <<"t","i","m","e">>,
    <<"d","a","t","e">>>>
behaviorKeywords ==
  <<<<"a","c","t","i","o","n">>,
    <<"e","v","e","n","t">>,
    <<"a","c","t","i","v","i","t","y">>,
    <<"s","t","a","t","u","s">>,
    <<"t","y","p","e">>,
    <<"c","a","t","e","g","o","r","y">>,
    <<"s","t","a","t","e">>>>
metricKeywords ==
  <<<<"c","o","u","n","t">>,
    <<"a","m","o","u","n","t">>,
    <<"t","o","t","a","l">>,
    <<"s","u","m">>,
    <<"a","v","g">>,
    <<"p","r","i","c","e">>,
    <<"c","o","s","t">>,
    <<"r","e","v","e","n","u","e">>,
    <<"q","u","a","n","t","i","t","y">>>>
dimensionKeywords ==
  <<<<"n","a","m","e">>,
    <<"t","i","t","l","e">>,
    <<"d","e","s","c","r","i","p","t","i","o","n">>,
    <<"l","a","b","e","l">>,
    <<"c","a","t","e","g","o","r","y">>>>
KeyPri == <<"P","R","I">>
AutoIncrement == <<"a","u","t","o","_","i","n","c","r","e","m","e","n","t">>
IdText == <<"i","d">>

\* Array.prototype.some(keyword => text.includes(keyword))
someIncludes(keywords, text) == \E k \in 1..Len(keywords) : includes(text, keywords[k])

colNameOf(col) == toLowerCase(col.COLUMN_NAME)
dataTypeOf(col) == toLowerCase(col.DATA_TYPE)

isIdentifierColumn(col) ==
  includes(colNameOf(col), IdText)
  /\ (col.COLUMN_KEY = KeyPri \/ includes(col.EXTRA, AutoIncrement))

isUserColumn(col) == someIncludes(userKeywords, colNameOf(col))

isTimeColumn(col) ==
  someIncludes(timeTypes, dataTypeOf(col)) \/ someIncludes(timeKeywords, colNameOf(col))

isBehaviorColumn(col) == someIncludes(behaviorKeywords, colNameOf(col))

isMetricColumn(col) == someIncludes(metricKeywords, colNameOf(col))

isDimensionColumn(col) == someIncludes(dimensionKeywords, colNameOf(col))

\* the names pushed, in column order, by one branch of the column loop
pushed(matched) == [i \in 1..Len(matched) |-> matched[i].COLUMN_NAME]

NoRelationships ==
  [isFactTable |-> FALSE, isDimensionTable |-> FALSE, isUserTable |-> FALSE,
   isEventTable |-> FALSE, isLookupTable |-> FALSE]

\* a faulty variant: the fact-table rule is tried before the two user rules
applyRules_FactFirst(a, columnCount, sampleCount) ==
  IF Len(a.metricColumns) > Len(a.dimensionColumns)
  THEN [a EXCEPT !.tableType = "fact_table", !.confidence = 80,
                 !.relationships.isFactTable = TRUE]
  ELSE IF Len(a.userColumns) > 0 /\ Len(a.timeColumns) = 0
  THEN [a EXCEPT !.tableType = "user_dimension", !.confidence = 90,
                 !.relationships.isUserTable = TRUE,
                 !.relationships.isDimensionTable = TRUE]
  ELSE IF Len(a.userColumns) > 0 /\ Len(a.timeColumns) > 0 /\ Len(a.behaviorColumns) > 0
  THEN [a EXCEPT !.tableType = "user_events", !.confidence = 95,
                 !.relationships.isEventTable = TRUE,
                 !.relationships.isFactTable = TRUE]
  ELSE a

\* the chain of rules that sets tableType, confidence and the relationship flags
applyRules(a, columnCount, sampleCount) ==
  IF Len(a.userColumns) > 0 /\ Len(a.timeColumns) = 0
  THEN [a EXCEPT !.tableType = "user_dimension", !.confidence = 90,
                 !.relationships.isUserTable = TRUE,
                 !.relationships.isDimensionTable = TRUE]
  ELSE IF Len(a.userColumns) > 0 /\ Len(a.timeColumns) > 0 /\ Len(a.behaviorColumns) > 0
  THEN [a EXCEPT !.tableType = "user_events", !.confidence = 95,
                 !.relationships.isEventTable = TRUE,
                 !.relationships.isFactTable = TRUE]
  ELSE IF Len(a.metricColumns) > Len(a.dimensionColumns)
  THEN [a EXCEPT !.tableType = "fact_table", !.confidence = 80,
                 !.relationships.isFactTable = TRUE]
  ELSE IF Len(a.dimensionColumns) > 0 /\ columnCount < 10
  THEN [a EXCEPT !.tableType = "dimension_table", !.confidence = 70,
                 !.relationships.isDimensionTable = TRUE]
  ELSE IF columnCount < 5 /\ sampleCount < 100
  THEN [a EXCEPT !.tableType = "lookup_table", !.confidence = 60,
                 !.relationships.isLookupTable = TRUE]
  ELSE a

\* sampleData is represented by its length, the only thing the classifier reads
classifyTableIntelligently(columns, sampleCount) ==
  applyRules([tableType |-> "unknown", confidence |-> 0,
              userColumns |-> pushed(SelectSeq(columns, isUserColumn)),
              timeColumns |-> pushed(SelectSeq(columns, isTimeColumn)),
              behaviorColumns |-> pushed(SelectSeq(columns, isBehaviorColumn)),
              dimensionColumns |-> pushed(SelectSeq(columns, isDimensionColumn)),
              metricColumns |-> pushed(SelectSeq(columns, isMetricColumn)),
              identifierColumns |-> pushed(SelectSeq(columns, isIdentifierColumn)),
              relationships |-> NoRelationships],
             Len(columns), sampleCount)

\* the per-table step of analyzeSingleDatabase: what is fetched at the detail
\* level, then the classification of what was fetched
tableAnalysisOf(detailLevel, sampleDataLimit, catalogColumns, tableRows) ==
  LET columns == IF detailLevel # "summary" THEN catalogColumns ELSE <<>>
      sampleCount == IF detailLevel # "summary" /\ detailLevel = "full" /\ sampleDataLimit > 0
                     THEN min(tableRows, sampleDataLimit) ELSE 0
  IN  [columns |-> columns, sampleCount |-> sampleCount,
       analysis |-> classifyTableIntelligently(columns, sampleCount)]

Column(name, type, key, extra) ==
  [COLUMN_NAME |-> name, DATA_TYPE |-> type, COLUMN_KEY |-> key, EXTRA |-> extra]

\* the columns tables are made of
CatalogColumns ==
  <<Column(<<"u","s","e","r","_","i","d">>, <<"i","n","t">>, <<"P","R","I">>, <<"a","u","t","o","_","i","n","c","r","e","m","e","n","t">>),
    Column(<<"c","r","e","a","t","e","d","_","a","t">>, <<"d","a","t","e","t","i","m","e">>, <<>>, <<>>),
    Column(<<"S","t","a","t","u","s">>, <<"V","A","R","C","H","A","R">>, <<>>, <<>>),
    Column(<<"a","m","o","u","n","t">>, <<"d","e","c","i","m","a","l">>, <<>>, <<>>),
    Column(<<"t","i","t","l","e">>, <<"v","a","r","c","h","a","r">>, <<>>, <<>>),
    Column(<<"c","o","d","e">>, <<"i","n","t">>, <<"P","R","I">>, <<>>),
    Column(<<"d","u","r","a","t","i","o","n">>, <<"t","i","m","e">>, <<>>, <<>>)>>

\* a column no rule matches
FillerColumn == Column(<<"n","o","t","e">>, <<"t","e","x","t">>, <<>>, <<>>)

fillers(n) == [i \in 1..n |-> FillerColumn]

\* the chosen catalog columns in their ordinal position, then n others
RECURSIVE picked(_, _)
picked(chosen, i) ==
  IF i > Len(CatalogColumns) THEN <<>>
  ELSE (IF i \in chosen THEN <<CatalogColumns[i]>> ELSE <<>>) \o picked(chosen, i + 1)

tableOf(chosen, n) == picked(chosen, 1) \o fillers(n)

DetailLevels == {"summary", "detailed", "full"}

ClassifyInit ==
  /\ Init
  /\ configDb = Undefined /\ cacheEnabled

ClassifyChoose(chosen, n, rows, detailLevel, limit) ==
  /\ call = Idle
  /\ call' = [tool |-> "table-chosen", columns |-> tableOf(chosen, n), rows |-> rows,
              detail_level |-> detailLevel, sample_data_limit |-> limit]
  /\ UNCHANGED <<now, cacheEnabled, fsOk, dirs, files, configDb, connection, io, response,
                 pre, last, ncalls, wpc, wname, wdata>>

Classify ==
  /\ call.tool = "table-chosen"
  /\ call' = [call EXCEPT !.tool = "classify"]
  /\ response' = tableAnalysisOf(call.detail_level, call.sample_data_limit,
                                 call.columns, call.rows)
  /\ UNCHANGED <<now, cacheEnabled, fsOk, dirs, files, configDb, connection, io, pre, last,
                 ncalls, wpc, wname, wdata>>

ClassifyNext ==
  \/ \E chosen \in SUBSET (1..Len(CatalogColumns)), n \in 0..MaxFillers,
         detailLevel \in DetailLevels, limit \in {0, MaxSampleRows - 1, MaxSampleRows} :
        ClassifyChoose(chosen, n, MaxSampleRows, detailLevel, limit)
  \/ Classify

SpecClassify == ClassifyInit /\ [][ClassifyNext]_vars

-----------------------------------------------------------------------------
(* The relationship graph: buildRelationshipGraph over the rows of the
   foreign-key query.  The graph is a function from the tables that have a
   node to their two lists; table names are ordinary identifiers. *)

NoGraph == <<>>

hasNode(graph, table) == table \in DOMAIN graph

\* graph[table] = { references: [], referencedBy: [] } when there is none yet
withNode(graph, table) ==
  IF hasNode(graph, table) THEN graph
  ELSE [t \in DOMAIN graph \cup {table} |->
          IF t = table THEN [references |-> <<>>, referencedBy |-> <<>>] ELSE graph[t]]

\* a faulty variant: the mirrored entry is put at the head of the list
addRelationship_Unshift(graph, rel) ==
  LET g1 == withNode(withNode(graph, rel.from_table), rel.to_table)
      g2 == [g1 EXCEPT ![rel.from_table].references =
                 Append(@, [table |-> rel.to_table, column |-> rel.to_column,
                            through |-> rel.from_column])]
  IN  [g2 EXCEPT ![rel.to_table].referencedBy =
         <<[table |-> rel.from_table, column |-> rel.from_column,
            through |-> rel.to_column]>> \o @]

\* one turn of the loop
addRelationship(graph, rel) ==
  LET g1 == withNode(withNode(graph, rel.from_table), rel.to_table)
      g2 == [g1 EXCEPT ![rel.from_table].references =
                 Append(@, [table |-> rel.to_table, column |-> rel.to_column,
                            through |-> rel.from_column])]
  IN  [g2 EXCEPT ![rel.to_table].referencedBy =
         Append(@, [table |-> rel.from_table, column |-> rel.from_column,
                    through |-> rel.to_column])]

RECURSIVE graphLoop(_, _, _)
graphLoop(graph, relationships, i) ==
  IF i > Len(relationships) THEN graph
  ELSE graphLoop(addRelationship(graph, relationships[i]), relationships, i + 1)

buildRelationshipGraph(relationships) == graphLoop(NoGraph, relationships, 1)

GraphTables == {"a", "b", "c"}
GraphColumns == {"x", "y"}

\* the rows the foreign-key query can return
Relationships ==
  [from_table : GraphTables, from_column : GraphColumns,
   to_table : GraphTables, to_column : {"id"}]

GraphChoose(relationships) ==
  /\ call = Idle
  /\ call' = [tool |-> "relationships-chosen", relationships |-> relationships]
  /\ UNCHANGED <<now, cacheEnabled, fsOk, dirs, files, configDb, connection, io, response,
                 pre, last, ncalls, wpc, wname, wdata>>

BuildGraph ==
  /\ call.tool = "relationships-chosen"
  /\ call' = [call EXCEPT !.tool = "graph"]
  /\ response' = buildRelationshipGraph(call.relationships)
  /\ UNCHANGED <<now, cacheEnabled, fsOk, dirs, files, configDb, connection, io, pre, last,
                 ncalls, wpc, wname, wdata>>

GraphInit ==
  /\ Init
  /\ configDb = Undefined /\ cacheEnabled

GraphNext ==
  \/ \E n \in 0..MaxEdges : \E relationships \in [1..n -> Relationships] :
        GraphChoose(relationships)
  \/ BuildGraph

SpecGraph == GraphInit /\ [][GraphNext]_vars

-----------------------------------------------------------------------------
(* Join suggestions: suggestOptimalJoins and findCommonColumns over the
   tableInfo that analyzeTableRelationships collects (the columns that
   DESCRIBE returns, by their Field, and the foreign-key rows). *)

Orders == <<"o","r","d","e","r","s">>
Customers == <<"c","u","s","t","o","m","e","r","s">>
Notes == <<"n","o","t","e","s">>

ForeignKey(column, table, refColumn) ==
  [COLUMN_NAME |-> column, REFERENCED_TABLE_NAME |-> table, REFERENCED_COLUMN_NAME |-> refColumn]

FkCustomer == ForeignKey(<<"c","u","s","t","o","m","e","r","_","i","d">>, Customers, <<"i","d">>)
FkBackup == ForeignKey(<<"b","a","c","k","u","p","_","i","d">>, Customers, <<"u","i","d">>)
FkLastOrder == ForeignKey(<<"l","a","s","t","_","o","r","d","e","r">>, Orders, <<"i","d">>)
FkParent == ForeignKey(<<"p","a","r","e","n","t","_","i","d">>, Orders, <<"i","d">>)

\* the Field of each column DESCRIBE returns
columnsOf(table) ==
  IF table = Orders THEN <<<<"i","d">>, <<"c","u","s","t","o","m","e","r","_","i","d">>, <<"C","r","e","a","t","e","d">>>>
  ELSE IF table = Customers THEN <<<<"I","D">>, <<"n","a","m","e">>, <<"c","r","e","a","t","e","d">>>>
  ELSE <<<<"b","o","d","y">>>>

\* the foreign keys the catalog can hold for the tables
OrdersKeys == {<<>>, <<FkCustomer>>, <<FkBackup, FkCustomer>>, <<FkParent>>}
CustomersKeys == {<<>>, <<FkLastOrder>>}

tableInfoOf(ordersKeys, customersKeys) ==
  [t \in {Orders, Customers, Notes} |->
     [columns |-> columnsOf(t),
      foreignKeys |-> IF t = Orders THEN ordersKeys
                      ELSE IF t = Customers THEN customersKeys ELSE <<>>]]

\* Array.prototype.find(fk => fk.REFERENCED_TABLE_NAME === table): the
\* position of the first such key, 0 when there is none
findKey(foreignKeys, table) ==
  IF \E k \in 1..Len(foreignKeys) : foreignKeys[k].REFERENCED_TABLE_NAME = table
  THEN CHOOSE k \in 1..Len(foreignKeys) :
         /\ foreignKeys[k].REFERENCED_TABLE_NAME = table
         /\ \A h \in 1..(k - 1) : foreignKeys[h].REFERENCED_TABLE_NAME # table
  ELSE 0

findCommonColumns(cols1, cols2) ==
  LET names1 == [i \in 1..Len(cols1) |-> toLowerCase(cols1[i])]
      names2 == [i \in 1..Len(cols2) |-> toLowerCase(cols2[i])]
  IN  SelectSeq(names1, LAMBDA name : \E i \in 1..Len(names2) : names2[i] = name)

Dot == <<".">>
Equals == <<" ","="," ">>
And == <<" ","A","N","D"," ">>

keyCondition(from, to, fk) ==
  from \o Dot \o fk.COLUMN_NAME \o Equals \o to \o Dot \o fk.REFERENCED_COLUMN_NAME

commonCondition(table1, table2, commonCols) ==
  joinWith([i \in 1..Len(commonCols) |->
              table1 \o Dot \o commonCols[i] \o Equals \o table2 \o Dot \o commonCols[i]], And)

\* a faulty variant: the common columns are looked at before the foreign keys
pairSuggestions_CommonFirst(tableInfo, table1, table2) ==
  LET commonCols == findCommonColumns(tableInfo[table1].columns, tableInfo[table2].columns)
      fk1 == findKey(tableInfo[table1].foreignKeys, table2)
  IN  IF Len(commonCols) > 0
      THEN <<[from |-> table1, to |-> table2, joinType |-> "INNER JOIN",
              condition |-> commonCondition(table1, table2, commonCols),
              relationship |-> "inferred", commonColumns |-> commonCols]>>
      ELSE IF fk1 # 0
      THEN <<[from |-> table1, to |-> table2, joinType |-> "INNER JOIN",
              condition |-> keyCondition(table1, table2, tableInfo[table1].foreignKeys[fk1]),
              relationship |-> "foreign_key", commonColumns |-> <<>>]>>
      ELSE <<>>

\* what the body of the inner loop pushes for one pair (commonColumns is
\* empty where the code leaves the property out)
pairSuggestions(tableInfo, table1, table2) ==
  LET fk1 == findKey(tableInfo[table1].foreignKeys, table2)
      fk2 == findKey(tableInfo[table2].foreignKeys, table1)
      commonCols == findCommonColumns(tableInfo[table1].columns, tableInfo[table2].columns)
  IN  IF fk1 # 0
      THEN <<[from |-> table1, to |-> table2, joinType |-> "INNER JOIN",
              condition |-> keyCondition(table1, table2, tableInfo[table1].foreignKeys[fk1]),
              relationship |-> "foreign_key", commonColumns |-> <<>>]>>
      ELSE IF fk2 # 0
      THEN <<[from |-> table2, to |-> table1, joinType |-> "INNER JOIN",
              condition |-> keyCondition(table2, table1, tableInfo[table2].foreignKeys[fk2]),
              relationship |-> "foreign_key", commonColumns |-> <<>>]>>
      ELSE IF Len(commonCols) > 0
      THEN <<[from |-> table1, to |-> table2, joinType |-> "INNER JOIN",
              condition |-> commonCondition(table1, table2, commonCols),
              relationship |-> "inferred", commonColumns |-> commonCols]>>
      ELSE <<>>

\* the two nested loops, from the pair (i, j) on
RECURSIVE joinLoop(_, _, _, _)
joinLoop(tableInfo, tables, i, j) ==
  IF i > Len(tables) THEN <<>>
  ELSE IF j > Len(tables) THEN joinLoop(tableInfo, tables, i + 1, i + 2)
  ELSE pairSuggestions(tableInfo, tables[i], tables[j]) \o joinLoop(tableInfo, tables, i, j + 1)

suggestOptimalJoins(tableInfo, tables) == joinLoop(tableInfo, tables, 1, 2)

JoinsChoose(ordersKeys, customersKeys, tables) ==
  /\ call = Idle
  /\ call' = [tool |-> "tables-chosen", tableInfo |-> tableInfoOf(ordersKeys, customersKeys),
              tables |-> tables]
  /\ UNCHANGED <<now, cacheEnabled, fsOk, dirs, files, configDb, connection, io, response,
                 pre, last, ncalls, wpc, wname, wdata>>

SuggestJoins ==
  /\ call.tool = "tables-chosen"
  /\ call' = [call EXCEPT !.tool = "joins"]
  /\ response' = suggestOptimalJoins(call.tableInfo, call.tables)
  /\ UNCHANGED <<now, cacheEnabled, fsOk, dirs, files, configDb, connection, io, pre, last,
                 ncalls, wpc, wname, wdata>>

JoinsInit ==
  /\ Init
  /\ configDb = Undefined /\ cacheEnabled

JoinsNext ==
  \/ \E ordersKeys \in OrdersKeys, customersKeys \in CustomersKeys, n \in 1..MaxTables :
       \E tables \in [1..n -> {Orders, Customers, Notes}] :
          JoinsChoose(ordersKeys, customersKeys, tables)
  \/ SuggestJoins

SpecJoins == JoinsInit /\ [][JoinsNext]_vars



-----------------------------------------------------------------------------
(* The connection handle over calls for different databases, and cleanup() *)

\* cleanup(): this.connection.end() if there is a connection; the process
\* exits afterwards
Cleanup ==
  /\ call.tool # "cleanup"
  /\ connection' = [connection EXCEPT !.open = FALSE]
  /\ call' = [tool |-> "cleanup"]
  /\ io' = NoIo /\ response' = Miss
  /\ pre' = [NoPre EXCEPT !.conn = connection]
  /\ UNCHANGED <<now, cacheEnabled, fsOk, dirs, files, configDb, last, ncalls, wpc, wname, wdata>>

\* a tool call while the process runs
ConnectionQuery(query, database, outcome, execOk) ==
  /\ call.tool # "cleanup"
  /\ HandleQuery(query, database, outcome, execOk)

ConnectionNext ==
  \/ \E q \in {SqlSelect1, SqlDrop}, db \in {Undefined, DbB, DbZb}, o \in ConnectOutcomes,
        e \in BOOLEAN : ConnectionQuery(q, db, o, e)
  \/ Cleanup

SpecConnection == Init /\ [][ConnectionNext]_vars



-----------------------------------------------------------------------------
(* Cross-database insights: the step of handleDiscoverAnalytics that calls
   analyzeCrossDatabasePatterns on discovery.databases.  An analyzed database
   is its name, its tables in the order they were stored, each with the
   relationship flags of its classification, and its summary. *)

TableNamed(name) ==
  [name |-> name,
   relationships |-> [NoRelationships EXCEPT !.isUserTable = (name = "users"),
                                             !.isDimensionTable = (name = "users"),
                                             !.isEventTable = (name = "events"),
                                             !.isFactTable = (name = "events")]]

\* the lists of tables a database can hold
TableLists ==
  {<<>>, <<"users">>, <<"events">>, <<"logs">>, <<"users", "logs">>,
   <<"logs", "events">>, <<"users", "events", "logs">>}

countOf(tables, flag) ==
  Len(SelectSeq(tables, LAMBDA t : t.relationships[flag]))

\* generateDatabaseSummary: the counts by role
generateDatabaseSummary(tables) ==
  [totalTables |-> Len(tables),
   factTables |-> countOf(tables, "isFactTable"),
   dimensionTables |-> countOf(tables, "isDimensionTable"),
   userTables |-> countOf(tables, "isUserTable"),
   eventTables |-> countOf(tables, "isEventTable"),
   architecture |-> IF countOf(tables, "isFactTable") > 0 THEN "star_schema" ELSE "normalized"]

databaseOf(name, tableList) ==
  LET tables == [i \in 1..Len(tableList) |-> TableNamed(tableList[i])]
  IN  [name |-> name, tables |-> tables, summary |-> generateDatabaseSummary(tables)]

\* tablePatterns[tableName].push({database: dbName, ...}), a new key going last
pushInstance(tablePatterns, tableName, dbName) ==
  IF \E i \in 1..Len(tablePatterns) : tablePatterns[i].table = tableName
  THEN [i \in 1..Len(tablePatterns) |->
          IF tablePatterns[i].table = tableName
          THEN [tablePatterns[i] EXCEPT !.instances = Append(@, dbName)]
          ELSE tablePatterns[i]]
  ELSE Append(tablePatterns, [table |-> tableName, instances |-> <<dbName>>])

\* the two nested loops that fill tablePatterns, from table t of database d on
RECURSIVE patternLoop(_, _, _, _)
patternLoop(tablePatterns, databases, d, t) ==
  IF d > Len(databases) THEN tablePatterns
  ELSE IF t > Len(databases[d].tables) THEN patternLoop(tablePatterns, databases, d + 1, 1)
  ELSE patternLoop(pushInstance(tablePatterns, databases[d].tables[t].name, databases[d].name),
                   databases, d, t + 1)

\* a faulty variant: a table found in one database is reported too
analyzeCrossDatabasePatterns_AnyInstance(databases) ==
  LET tablePatterns == patternLoop(<<>>, databases, 1, 1)
      userDatabases == SelectSeq(databases, LAMBDA db :
                          db.summary.userTables > 0 \/ db.summary.eventTables > 0)
  IN  [i \in 1..Len(tablePatterns) |->
         [pattern |-> "duplicate_table_structure", table |-> tablePatterns[i].table,
          databases |-> tablePatterns[i].instances]]
      \o (IF Len(userDatabases) > 1
          THEN <<[pattern |-> "distributed_user_data", table |-> "",
                  databases |-> [i \in 1..Len(userDatabases) |-> userDatabases[i].name]]>>
          ELSE <<>>)

\* analyzeCrossDatabasePatterns (table is empty where the code leaves it out)
analyzeCrossDatabasePatterns(databases) ==
  LET tablePatterns == patternLoop(<<>>, databases, 1, 1)
      repeated == SelectSeq(tablePatterns, LAMBDA p : Len(p.instances) > 1)
      userDatabases == SelectSeq(databases, LAMBDA db :
                          db.summary.userTables > 0 \/ db.summary.eventTables > 0)
  IN  [i \in 1..Len(repeated) |->
         [pattern |-> "duplicate_table_structure", table |-> repeated[i].table,
          databases |-> repeated[i].instances]]
      \o (IF Len(userDatabases) > 1
          THEN <<[pattern |-> "distributed_user_data", table |-> "",
                  databases |-> [i \in 1..Len(userDatabases) |-> userDatabases[i].name]]>>
          ELSE <<>>)

\* the cross-database step: discovery.crossDatabaseInsights
crossDatabaseInsightsOf(cross_database_analysis, targetDatabases, databases) ==
  IF cross_database_analysis /\ Len(targetDatabases) > 1
  THEN analyzeCrossDatabasePatterns(databases)
  ELSE <<>>

DatabaseNames == <<"d1", "d2", "d3", "d4">>

\* the databases of the first page, analyzed in page order
CrossChoose(cross, tableLists, page_size) ==
  /\ call = Idle
  /\ call' = [tool |-> "databases-chosen", cross_database_analysis |-> cross,
              targetDatabases |-> [i \in 1..Len(tableLists) |-> DatabaseNames[i]],
              databases |-> [i \in 1..min(page_size, Len(tableLists)) |->
                               databaseOf(DatabaseNames[i], tableLists[i])]]
  /\ UNCHANGED <<now, cacheEnabled, fsOk, dirs, files, configDb, connection, io, response,
                 pre, last, ncalls, wpc, wname, wdata>>

CrossAnalyze ==
  /\ call.tool = "databases-chosen"
  /\ call' = [call EXCEPT !.tool = "cross"]
  /\ response' = crossDatabaseInsightsOf(call.cross_database_analysis, call.targetDatabases,
                                         call.databases)
  /\ UNCHANGED <<now, cacheEnabled, fsOk, dirs, files, configDb, connection, io, pre, last,
                 ncalls, wpc, wname, wdata>>

CrossInit ==
  /\ Init
  /\ configDb = Undefined /\ cacheEnabled

CrossNext ==
  \/ \E cross \in BOOLEAN, n \in 0..MaxCrossDatabases, page_size \in 1..MaxCrossDatabases :
       \E tableLists \in [1..n -> TableLists] : CrossChoose(cross, tableLists, page_size)
  \/ CrossAnalyze

SpecCross == CrossInit /\ [][CrossNext]_vars

-----------------------------------------------------------------------------
(* analyzeSingleDatabase as a whole: the statements it sends and the
   database record it returns, for a database of tableCount tables.  A
   statement is named by its catalog table and, per table, by the table. *)

\* the foreign-key rows of the database, as the relationships query names them
relationshipRows(tableCount) ==
  [i \in 1..(IF tableCount > 1 THEN tableCount - 1 ELSE 0) |->
     [source_table |-> i + 1, source_column |-> "parent_id",
      target_table |-> 1, target_column |-> "id"]]

\* what the loop does for one table
tableInfoFor(table, detailLevel, sampleDataLimit) ==
  LET fetched == tableAnalysisOf(detailLevel, sampleDataLimit,
                                 <<CatalogColumns[1], CatalogColumns[2]>>, MaxSampleRows)
  IN  [executedQueries |->
         (IF detailLevel # "summary"
          THEN <<[kind |-> "columns", table |-> table]>>
               \o (IF detailLevel = "full" /\ sampleDataLimit > 0
                   THEN <<[kind |-> "sample", table |-> table, limit |-> sampleDataLimit]>>
                   ELSE <<>>)
          ELSE <<>>),
       info |-> [TABLE_NAME |-> table, analysis |-> fetched.analysis]
                @@ (IF detailLevel # "summary" THEN [columns |-> fetched.columns] ELSE <<>>)
                @@ (IF detailLevel # "summary" /\ detailLevel = "full"
                    THEN [sampleData |-> fetched.sampleCount, insights |-> <<>>]
                    ELSE <<>>)]

\* the tables query with LIMIT maxTables, the relationships query, the loop
\* over the tables, the summary
databaseAnalysis(tableCount, detailLevel, maxTables, sampleDataLimit) ==
  LET tables == [i \in 1..min(tableCount, maxTables) |->
                   tableInfoFor(i, detailLevel, sampleDataLimit)]
      RECURSIVE sent(_)
      sent(i) == IF i > Len(tables) THEN <<>> ELSE tables[i].executedQueries \o sent(i + 1)
      infos == [i \in 1..Len(tables) |-> tables[i].info]
  IN  [executedQueries |-> <<[kind |-> "tables", limit |-> maxTables],
                             [kind |-> "relationships"]>> \o sent(1),
       database |-> [name |-> "d1", tables |-> infos,
                     relationships |-> relationshipRows(tableCount),
                     summary |-> generateDatabaseSummary(
                                   [i \in 1..Len(infos) |->
                                      [name |-> i, relationships |-> infos[i].analysis.relationships]])]]

AnalyzerChoose(tableCount, detailLevel, maxTables, sampleDataLimit) ==
  /\ call = Idle
  /\ call' = [tool |-> "database-chosen", tableCount |-> tableCount,
              detail_level |-> detailLevel, max_tables_per_db |-> maxTables,
              sample_data_limit |-> sampleDataLimit]
  /\ UNCHANGED <<now, cacheEnabled, fsOk, dirs, files, configDb, connection, io, response,
                 pre, last, ncalls, wpc, wname, wdata>>

AnalyzeDatabase ==
  /\ call.tool = "database-chosen"
  /\ call' = [call EXCEPT !.tool = "analyze"]
  /\ response' = databaseAnalysis(call.tableCount, call.detail_level, call.max_tables_per_db,
                                  call.sample_data_limit)
  /\ UNCHANGED <<now, cacheEnabled, fsOk, dirs, files, configDb, connection, io, pre, last,
                 ncalls, wpc, wname, wdata>>

AnalyzerInit ==
  /\ Init
  /\ configDb = Undefined /\ cacheEnabled

AnalyzerNext ==
  \/ \E tableCount \in 0..MaxTableCount, detailLevel \in DetailLevels,
        maxTables \in 0..MaxTableCount, sampleDataLimit \in 0..MaxSampleLimit :
        AnalyzerChoose(tableCount, detailLevel, maxTables, sampleDataLimit)
  \/ AnalyzeDatabase

SpecAnalyzer == AnalyzerInit /\ [][AnalyzerNext]_vars

-----------------------------------------------------------------------------
(* Overlapping saveToCache calls: each await is a point where the other call,
   a reader or the clock may run *)

WriterKey == [operation |-> OpQuery, subDir |-> DirQueries, database |-> DbB,
              query |-> SqlSelect1]

WriterOthers == <<now, cacheEnabled, fsOk, configDb, connection, call, io, response, pre,
                  last, ncalls>>

\* saveToCache is entered: a disabled cache returns null at once, otherwise the
\* call awaits ensureCacheDirectory
WBegin(w, data) ==
  /\ wpc[w] = "idle"
  /\ wpc' = [wpc EXCEPT ![w] = IF cacheEnabled THEN "mkdir" ELSE "done"]
  /\ wdata' = [wdata EXCEPT ![w] =
                 [tool |-> "save", data |-> data,
                  overlap |-> \E v \in Writers \ {w} : wpc[v] \notin {"idle", "done"}]]
  /\ UNCHANGED <<dirs, files, wname>>
  /\ UNCHANGED WriterOthers

\* the directory exists; the file name and the content are built, the size is
\* checked, and the call awaits writeFile
WMkdir(w) ==
  /\ wpc[w] = "mkdir"
  /\ dirs' = dirs \cup {WriterKey.subDir}
  /\ LET fileName == generateCacheFileName(now, WriterKey.operation, WriterKey.database,
                                           WriterKey.query)
         cacheData == cacheDataOf(now, wdata[w].data, WriterKey.operation,
                                  WriterKey.database, WriterKey.query)
     IN  IF contentLength(cacheData) > maxFileSize
         THEN /\ wpc' = [wpc EXCEPT ![w] = "done"]
              /\ UNCHANGED <<wname, wdata>>
         ELSE /\ wpc' = [wpc EXCEPT ![w] = "open"]
              /\ wname' = [wname EXCEPT ![w] = <<WriterKey.subDir, fileName>>]
              /\ wdata' = [wdata EXCEPT ![w] = [tool |-> "save", data |-> wdata[w].data,
                                                overlap |-> wdata[w].overlap,
                                                content |-> cacheData]]
  /\ UNCHANGED files
  /\ UNCHANGED WriterOthers

\* writeFile opens the file: it exists and is empty
WOpen(w) ==
  /\ wpc[w] = "open"
  /\ files' = writeFile(files, wname[w][1], wname[w][2], now, Truncated)
  /\ wpc' = [wpc EXCEPT ![w] = "write"]
  /\ UNCHANGED <<dirs, wname, wdata>>
  /\ UNCHANGED WriterOthers

\* writeFile writes the content and resolves; saveToCache returns the path
WWrite(w) ==
  /\ wpc[w] = "write"
  /\ files' = writeFile(files, wname[w][1], wname[w][2], now, wdata[w].content)
  /\ wpc' = [wpc EXCEPT ![w] = "done"]
  /\ UNCHANGED <<dirs, wname, wdata>>
  /\ UNCHANGED WriterOthers

WritersRead ==
  CacheRead(WriterKey.operation, WriterKey.subDir, WriterKey.database, WriterKey.query, 1)

WritersAdvanceMs == now % HourMs < MaxMs /\ Advance(1)

WritersInit == Init /\ configDb = Undefined

WritersNext ==
  \/ \E w \in Writers, d \in Payloads : WBegin(w, d)
  \/ \E w \in Writers : WMkdir(w)
  \/ \E w \in Writers : WOpen(w)
  \/ \E w \in Writers : WWrite(w)
  \/ WritersRead
  \/ WritersAdvanceMs

SpecWriters == WritersInit /\ [][WritersNext]_vars

-----------------------------------------------------------------------------
(* Properties of the cache operations *)

\* the entries of a directory that saveToCache wrote for (operation, database, query)
WrittenUnder(fs, subDir, operation, database, query) ==
  {f \in fs :
     /\ f.dir = subDir
     /\ f.content # Truncated
     /\ f.content.operation = operation
     /\ f.content.database = cacheDataOf(0, 0, operation, database, query).database
     /\ f.content.query = cacheDataOf(0, 0, operation, database, query).query}

\* the entries of S with the latest creation timestamp
Newest(S) == {f \in S : \A g \in S : g.content.timestamp <= f.content.timestamp}

\* the entries of a directory whose name matches the key of a read
Matching(fs, subDir, operation, database, query) ==
  {f \in fs : /\ f.dir = subDir
              /\ includes(f.name, generateCacheKey(operation, database, query))
              /\ endsWith(f.name, <<".","j","s","o","n">>)}

\* C1: cache round trip.  A read with the operation, sub-directory, scope and
\* fingerprint of an earlier save returns the payload of the latest such save
\* while its age is at most the ttl, and nothing once the age exceeds the ttl.
C1_RoundTrip ==
  call.tool = "read" =>
    LET own == WrittenUnder(files, call.subDir, call.operation, call.database, call.query)
    IN  own # {} =>
          \A f \in Newest(own) :
            IF now - f.content.timestamp <= call.ttl * HourMs
            THEN response.hit /\ response.data = f.content.data
            ELSE ~response.hit

\* C8: the store is append-only.  Every successful saveToCache adds exactly one
\* entry and leaves every entry stored before unchanged.
C8_AppendOnly ==
  (call.tool = "save" /\ response.path # NoPath) =>
    /\ pre.files \subseteq files
    /\ Cardinality(files) = Cardinality(pre.files) + 1

\* C9: freshest wins.  When stored entries match the key of a read, the read
\* decides on an entry with the most recent timestamp alone: it returns that
\* entry's payload if that entry is within the ttl, and nothing otherwise.
C9_FreshestWins ==
  call.tool = "read" =>
    LET m == Matching(files, call.subDir, call.operation, call.database, call.query)
    IN  m # {} =>
          \E f \in Newest(m) :
            IF now - f.mtime <= call.ttl * HourMs
            THEN /\ response.hit
                 /\ response.data = f.content.data
                 /\ response.filePath = <<f.dir, f.name>>
            ELSE response = Miss

\* C9 witness: a read that matched an older and a newer entry with different
\* payloads and returned the newer one
C9_Witness ==
  /\ call.tool = "read"
  /\ response.hit
  /\ \E f, g \in Matching(files, call.subDir, call.operation, call.database, call.query) :
       /\ g.content.timestamp < f.content.timestamp
       /\ g.content.data # f.content.data
       /\ response.data = f.content.data

-----------------------------------------------------------------------------
(* Properties of mysql_query *)

\* the trimmed, lower-cased statement starts with one of the five prefixes
StartsReadOnly(q) ==
  \E p \in {<<"s","e","l","e","c","t">>, <<"s","h","o","w">>,
            <<"d","e","s","c","r","i","b","e">>, <<"e","x","p","l","a","i","n">>,
            <<"d","e","s","c">>} :
     startsWith(toLowerCase(trim(q)), p)

RejectedStatements == {q \in Statements : ~StartsReadOnly(q) \/ Len(q) > 10000}

\* C4: query results are cached for one hour.  A successful mysql_query writes
\* an entry under operation "query", and a repeated identical mysql_query within
\* one hour of such an entry is answered from it without executing the statement.
C4_QueryCached ==
  call.tool = "mysql_query" =>
    /\ (response.kind = "document" /\ cacheEnabled) =>
         \E f \in WrittenUnder(files, DirQueries, OpQuery, call.args.database,
                               call.args.query) : io.wrote = <<f.dir, f.name>>
    /\ (\E f \in WrittenUnder(pre.files, DirQueries, OpQuery, call.args.database,
                              call.args.query) : now - f.content.timestamp <= HourMs) =>
         /\ response.kind = "document"
         /\ response.cache.from = "cache"
         /\ io.executed = <<>>

\* C5: validation happens before any I/O.  A statement that does not start with
\* a read-only prefix, or is longer than 10,000 characters, ends in an error,
\* with no connection opened, no statement executed and no cache entry written.
C5_ValidationBeforeIo ==
  (call.tool = "mysql_query" /\ call.args.query \in RejectedStatements) =>
    /\ response.kind = "error"
    /\ io.connects = 0 /\ connection = pre.conn
    /\ io.executed = <<>>
    /\ io.wrote = NoPath /\ files = pre.files /\ dirs = pre.dirs

\* C5 witness: DROP TABLE x was rejected as not read-only
C5_Witness ==
  /\ call.tool = "mysql_query"
  /\ call.args.query = SqlDrop
  /\ response = ErrorResult("NotReadOnly")
  /\ ~connection.open

\* the first keyword of a statement: its leading letters, lower-cased
FirstKeyword(q) ==
  LET t == toLowerCase(trim(q))
      isLetter(c) == charCodeAt(c) >= 97 /\ charCodeAt(c) <= 122
      stops == {i \in 1..Len(t) : ~isLetter(t[i])}
  IN  IF stops = {} THEN t
      ELSE SubSeq(t, 1, (CHOOSE i \in stops : \A j \in stops : i <= j) - 1)

\* a statement separator followed by more text
HasFurtherStatement(q) ==
  \E i \in 1..Len(q) : q[i] = ";" /\ \E j \in (i + 1)..Len(q) : q[j] # " "

\* C6: only read-only statements reach the database.  Every statement text that
\* mysql_query passes to the database has SELECT, SHOW, DESCRIBE, DESC or EXPLAIN
\* as its first keyword and contains no further statement.
C6_OnlyReadOnlyExecuted ==
  \A i \in DOMAIN io.executed :
    io.executed[i].kind = "user" =>
      /\ FirstKeyword(io.executed[i].sql) \in
           {<<"s","e","l","e","c","t">>, <<"s","h","o","w">>,
            <<"d","e","s","c","r","i","b","e">>, <<"e","x","p","l","a","i","n">>,
            <<"d","e","s","c">>}
      /\ ~HasFurtherStatement(io.executed[i].sql)

-----------------------------------------------------------------------------
(* Properties of mysql_schema *)

\* C3: mysql_schema is cache-backed.  For any arguments, a second call with the
\* same arguments within the TTL of the first (1 hour for a table detail, 2 hours
\* for a database overview) is answered from the entry the first call wrote,
\* without executing any schema query.
C3_SchemaCacheBacked ==
  ( /\ call.tool = "mysql_schema"
    /\ cacheEnabled
    /\ pre.last.tool = "mysql_schema"
    /\ pre.last.args = call.args
    /\ pre.last.ok
    /\ now - pre.last.at <= (IF Truthy(call.args.table) THEN 1 ELSE 2) * HourMs )
  => /\ response.kind = "document"
     /\ response.cache.from = "cache"
     /\ io.executed = <<>>

-----------------------------------------------------------------------------
(* Properties of mysql_discover_analytics *)

DiscoveryTtl == 4

\* the entries the cache lookup of the call considers
DiscoveryMatching(fs, a) ==
  Matching(fs, DirDiscovery, OpDiscovery, discoverySortedDbs(a), discoveryCacheKey(a))

\* the lookup of the call found entries, and the freshest of them is beyond the TTL
FoundStale(a) ==
  /\ cacheEnabled
  /\ DiscoveryMatching(pre.files, a) # {}
  /\ \A f \in Newest(DiscoveryMatching(pre.files, a)) : now - f.mtime > DiscoveryTtl * HourMs

\* C2: discovery called twice with identical arguments, the second call within
\* the 4-hour TTL of the entry the first wrote: the second call is answered from
\* the cache, sends no catalog or sample query, returns the stored report and
\* carries provenance whose age is less than the TTL.
C2_DiscoveryTwice ==
  ( /\ call.tool = "mysql_discover_analytics"
    /\ pre.last.tool = "mysql_discover_analytics"
    /\ pre.last.args = call.args
    /\ pre.last.wrote # NoPath
    /\ now - pre.last.at < DiscoveryTtl * HourMs )
  => /\ response.kind = "document"
     /\ response.cache.from = "cache"
     /\ io.executed = <<>>
     /\ \E f \in pre.files : /\ <<f.dir, f.name>> = pre.last.wrote
                             /\ response.doc = f.content.data
     /\ response.cache.age < 10 * DiscoveryTtl

\* C7: a stale entry is never served.  A response that carries a cached payload
\* took it from an entry no older than the TTL; a lookup that finds the freshest
\* entry stale is a miss and leaves every entry as it was; and once the caller
\* has computed live and written a new entry, an identical lookup hits that entry.
C7_StaleNeverServed ==
  call.tool = "mysql_discover_analytics" =>
    /\ (response.kind = "document" /\ response.cache.from = "cache") =>
         \E f \in pre.files : /\ <<f.dir, f.name>> = response.cache.filePath
                              /\ f.content.data = response.doc
                              /\ now - f.mtime <= DiscoveryTtl * HourMs
    /\ (io.read.did /\ FoundStale(call.args)) =>
         /\ io.read.result = Miss
         /\ response.kind = "document" => response.cache.from # "cache"
         /\ pre.files \subseteq files
         /\ \A f \in files \ pre.files : <<f.dir, f.name>> = io.wrote
    /\ (io.read.did /\ FoundStale(call.args) /\ io.wrote # NoPath) =>
         LET again == readFromCache(OpDiscovery, DirDiscovery,
                                    discoverySortedDbs(call.args),
                                    discoveryCacheKey(call.args), DiscoveryTtl)
         IN  /\ again.hit
             /\ again.filePath = io.wrote
             /\ again.data = response.doc

\* C7 witness: a call found its entry one millisecond beyond the TTL, computed
\* live and wrote a new entry
C7_Witness ==
  /\ call.tool = "mysql_discover_analytics"
  /\ io.read.did /\ FoundStale(call.args)
  /\ \E f \in DiscoveryMatching(pre.files, call.args) :
        now - f.mtime = DiscoveryTtl * HourMs + 1
  /\ io.executed # <<>>
  /\ io.wrote # NoPath

-----------------------------------------------------------------------------
(* Properties of overlapping writers *)

BothWritten == \A w \in Writers : wpc[w] = "done" /\ wname[w] # NoPath

\* C10: concurrent writers are safe without locking.  When two overlapping calls
\* have both written an entry for the same key, both entries exist, each with
\* the content its writer gave it, and a read that starts afterwards returns
\* the payload of the entry with the later timestamp.
C10_ConcurrentWriters ==
  (BothWritten /\ \E w \in Writers : wdata[w].overlap) =>
    /\ \A v, w \in Writers : v # w => wname[v] # wname[w]
    /\ \A w \in Writers :
          \E f \in files : <<f.dir, f.name>> = wname[w] /\ f.content = wdata[w].content
    /\ LET r == readFromCache(WriterKey.operation, WriterKey.subDir, WriterKey.database,
                              WriterKey.query, 1)
       IN  /\ r.hit
           /\ \E w \in Writers :
                 /\ \A v \in Writers : wdata[v].content.timestamp <= wdata[w].content.timestamp
                 /\ r.data = wdata[w].data

\* the complete entries within the TTL among fs, for the writers' key
ServableEntries(fs) ==
  {f \in Matching(fs, WriterKey.subDir, WriterKey.operation, WriterKey.database,
                  WriterKey.query) :
     f.content # Truncated /\ now - f.mtime <= HourMs}

\* C11: a write is atomic for readers.  At every moment an entry is either absent
\* or present with its complete content, and a read that runs while a write for
\* the same key is in progress returns a complete entry (the previously freshest
\* one or the new one) whenever one within the TTL exists; the write in progress
\* never turns it into a miss.
C11_AtomicWrite ==
  /\ \A f \in files : f.content # Truncated
  /\ (call.tool = "read" /\ cacheEnabled /\ ServableEntries(pre.files) # {}) =>
        /\ response.hit
        /\ \E f \in ServableEntries(pre.files) : response.data = f.content.data

-----------------------------------------------------------------------------
(* Properties of the server with all its tools *)

ToolNames == {"mysql_query", "mysql_schema", "mysql_analyze_tables",
              "mysql_discover_analytics"}

\* C12: disabled mode.  With caching turned off every readFromCache returns
\* nothing and every saveToCache returns nothing, creating no directory and no
\* file, whatever entries exist on disk; and a tool call that returns a document
\* returns the live-computed one, without cache provenance.
C12_DisabledMode ==
  ~cacheEnabled =>
    /\ call.tool = "read" => response = Miss
    /\ call.tool = "save" =>
         response.path = NoPath /\ files = pre.files /\ dirs = pre.dirs
    /\ call.tool \in ToolNames =>
         /\ files = pre.files /\ dirs = pre.dirs
         /\ io.wrote = NoPath
         /\ io.read.did => io.read.result = Miss
         /\ response.kind = "document" =>
               response.cache.from = "none" /\ io.executed # <<>>

\* C12 witness: entries exist on disk, the cache is off, and mysql_query
\* returned its live result
C12_Witness ==
  /\ ~cacheEnabled
  /\ \E f \in files : f.dir = DirQueries
  /\ call.tool = "mysql_query"
  /\ response.kind = "document"

\* the call's lookup met a damaged entry as the latest one for its key
MetDamaged(operation, subDir, database, query) ==
  LET m == Matching(pre.files, subDir, operation, database, query)
  IN  /\ m # {}
      /\ \E f \in m : f.name = latestOf({g.name : g \in m}) /\ f.content = Truncated

\* the errors a tool call reports for its input or for the database
NonCacheErrors == {"NotReadOnly", "QueryTooLong", "CannotConnect", "QueryFailed",
                   "TablesRequired", "UnknownAnalysisType"}

-----------------------------------------------------------------------------
(* Properties of the logical key *)

\* two different fingerprints with the same hash
HashCollision(a, b) ==
  /\ a.query # b.query
  /\ Truthy(a.query) /\ Truthy(b.query)
  /\ hashString(a.query) = hashString(b.query)

\* C14: the logical key is a pure function of (operation, scope, fingerprint):
\* the same tuple always gives the same key, and two tuples that differ in a
\* component give different keys (hash collisions aside), also when scope and
\* operation concatenate to the same text and when they differ only in a scope
\* or fingerprint being absent rather than empty.
C14_KeyInjective ==
  call.tool = "keys" =>
    /\ call.a = call.b => response.a = response.b
    /\ (call.a # call.b /\ ~HashCollision(call.a, call.b)) => response.a # response.b

-----------------------------------------------------------------------------
(* Cache isolation *)

SetOf(a) == {a[i] : i \in DOMAIN a}

\* C15: cache isolation.  A call answered from the cache is answered with an
\* entry written under the same operation, scope and fingerprint; a discovery
\* call in particular only with a report for the same focus area, page and page
\* size and the same set of databases, never with the report of another list.
C15_CacheIsolation ==
  ( /\ call.tool = "mysql_discover_analytics"
    /\ response.kind = "document"
    /\ response.cache.from = "cache" )
  => /\ \E f \in pre.files :
          /\ <<f.dir, f.name>> = response.cache.filePath
          /\ f.content.operation = OpDiscovery
          /\ f.content.database = discoverySortedDbs(call.args)
          /\ f.content.query = discoveryCacheKey(call.args)
     /\ response.doc.focusArea = call.args.focus_area
     /\ response.doc.pagination.currentPage = call.args.page
     /\ response.doc.pagination.pageSize = call.args.page_size
     /\ call.args.databases # NoDatabases =>
          SetOf(response.doc.allDatabases) = SetOf(call.args.databases)

-----------------------------------------------------------------------------
(* Properties of the pagination window *)

\* the pages of a list of n databases at the given page size
PagesOf(n, page_size) == 1..paginate(listOf(n), 1, page_size).totalPages

\* C16: pagination arithmetic.  totalPages is ceil(N / pageSize); for a page in
\* 1..totalPages the analyzed set is the slice from index (page-1)*pageSize to
\* min(page*pageSize, N)-1 in list order, hasPreviousPage is page > 1 and
\* hasNextPage is page < totalPages; the slices of all pages are pairwise
\* disjoint and together cover the list.
C16_PaginationArithmetic ==
  call.tool = "paginate" =>
    LET n == call.n
        size == call.page_size
        page == call.page
        last0 == (IF page * size < n THEN page * size ELSE n) - 1
    IN  /\ response.totalPages * size >= n
        /\ response.totalPages >= 0
        /\ response.totalPages > 0 => (response.totalPages - 1) * size < n
        /\ page \in 1..response.totalPages =>
             /\ response.pagedDatabases =
                  [i \in 1..(last0 - (page - 1) * size + 1) |-> (page - 1) * size + i]
             /\ response.hasPreviousPage = (page > 1)
             /\ response.hasNextPage = (page < response.totalPages)
        /\ \A p, q \in PagesOf(n, size) :
             p # q => SetOf(paginate(listOf(n), p, size).pagedDatabases)
                        \cap SetOf(paginate(listOf(n), q, size).pagedDatabases) = {}
        /\ UNION {SetOf(paginate(listOf(n), p, size).pagedDatabases) :
                    p \in PagesOf(n, size)} = 1..n

\* C16 witness: 12 databases at page size 5, page 3 holds the 11th and 12th
C16_Witness ==
  /\ call.tool = "paginate"
  /\ call.n = 12 /\ call.page_size = 5 /\ call.page = 3
  /\ response.totalPages = 3
  /\ response.pagedDatabases = <<11, 12>>
  /\ ~response.hasNextPage /\ response.hasPreviousPage

\* C17: there is no clamp of page.  For every page outside 1..totalPages (beyond
\* the last page, zero or negative) the analyzed set is empty, and the flags
\* are those of the unclamped page number.
C17_OutOfRangePages ==
  (call.tool = "paginate" /\ call.page \notin 1..response.totalPages) =>
    /\ response.pagedDatabases = <<>>
    /\ response.currentPageDatabases = 0
    /\ response.hasNextPage = (call.page < response.totalPages)
    /\ response.hasPreviousPage = (call.page > 1)

-----------------------------------------------------------------------------
(* Table classification *)

\* the role, confidence and flags a classification carries
Rated(a, type, confidence, flags) ==
  /\ a.tableType = type
  /\ a.confidence = confidence
  /\ \A f \in DOMAIN NoRelationships : a.relationships[f] = (f \in flags)

\* C18: the role, confidence and relationship flags of a classified table are
\* those of the first rule, in the fixed order user_dimension (0.9),
\* user_events (0.95), fact_table (0.8), dimension_table (0.7), lookup_table
\* (0.6), unknown (0.0), that its column-role lists, column count and sample
\* count satisfy; user, time and behavior columns together give user_events
\* whatever the metric count; and the classification is the one the classifier
\* computes from the fetched columns and sample alone.
C18_Precedence ==
  call.tool = "classify" =>
    LET a == response.analysis
        n == Len(response.columns)
        m == response.sampleCount
        user == Len(a.userColumns) > 0
        time == Len(a.timeColumns) > 0
        behavior == Len(a.behaviorColumns) > 0
        r1 == user /\ ~time
        r2 == user /\ time /\ behavior
        r3 == Len(a.metricColumns) > Len(a.dimensionColumns)
        r4 == Len(a.dimensionColumns) > 0 /\ n < 10
        r5 == n < 5 /\ m < 100
    IN  /\ r1 => Rated(a, "user_dimension", 90, {"isUserTable", "isDimensionTable"})
        /\ r2 => Rated(a, "user_events", 95, {"isEventTable", "isFactTable"})
        /\ (~r1 /\ ~r2 /\ r3) => Rated(a, "fact_table", 80, {"isFactTable"})
        /\ (~r1 /\ ~r2 /\ ~r3 /\ r4) => Rated(a, "dimension_table", 70, {"isDimensionTable"})
        /\ (~r1 /\ ~r2 /\ ~r3 /\ ~r4 /\ r5) => Rated(a, "lookup_table", 60, {"isLookupTable"})
        /\ (~r1 /\ ~r2 /\ ~r3 /\ ~r4 /\ ~r5) => Rated(a, "unknown", 0, {})
        /\ a = classifyTableIntelligently(response.columns, m)

\* a table with user, time and behavior columns and more metric than dimension
\* columns has been classified user_events
C18_Witness ==
  /\ call.tool = "classify"
  /\ Len(response.analysis.userColumns) > 0
  /\ Len(response.analysis.timeColumns) > 0
  /\ Len(response.analysis.behaviorColumns) > 0
  /\ Len(response.analysis.metricColumns) > Len(response.analysis.dimensionColumns)
  /\ response.analysis.tableType = "user_events"

\* the declared types MySQL calls temporal
TemporalTypes == {<<"d","a","t","e">>, <<"t","i","m","e">>, <<"d","a","t","e","t","i","m","e">>, <<"t","i","m","e","s","t","a","m","p">>, <<"y","e","a","r">>}

Listed(name, list) == \E i \in 1..Len(list) : list[i] = name

\* C19: every column of a classified table is in identifierColumns exactly
\* when it is a primary key or auto-increment, in userColumns,
\* behaviorColumns, metricColumns and dimensionColumns exactly when its
\* lower-cased name contains one of the list's keywords, and in timeColumns
\* exactly when its declared type is temporal or its name contains one of
\* created, updated, modified, deleted, time, date.
C19_ColumnRoles ==
  call.tool = "classify" =>
    \A i \in 1..Len(response.columns) :
      LET col == response.columns[i]
          a == response.analysis
          name == toLowerCase(col.COLUMN_NAME)
      IN  /\ Listed(col.COLUMN_NAME, a.identifierColumns)
               <=> (col.COLUMN_KEY = KeyPri \/ includes(col.EXTRA, AutoIncrement))
          /\ Listed(col.COLUMN_NAME, a.userColumns) <=> someIncludes(userKeywords, name)
          /\ Listed(col.COLUMN_NAME, a.behaviorColumns) <=> someIncludes(behaviorKeywords, name)
          /\ Listed(col.COLUMN_NAME, a.metricColumns) <=> someIncludes(metricKeywords, name)
          /\ Listed(col.COLUMN_NAME, a.dimensionColumns) <=> someIncludes(dimensionKeywords, name)
          /\ Listed(col.COLUMN_NAME, a.timeColumns)
               <=> (toLowerCase(col.DATA_TYPE) \in TemporalTypes
                    \/ someIncludes(timeKeywords, name))

\* C20: a table analysed at detail level summary is classified from no
\* columns and no sample rows, and its classification is unknown with
\* confidence 0.0 and every relationship flag false.
C20_SummaryUnknown ==
  (call.tool = "classify" /\ call.detail_level = "summary") =>
    /\ response.columns = <<>>
    /\ response.sampleCount = 0
    /\ Rated(response.analysis, "unknown", 0, {})

-----------------------------------------------------------------------------
(* The relationship graph *)

RECURSIVE SumLen(_, _)
SumLen(graph, field) ==
  IF DOMAIN graph = {} THEN 0
  ELSE LET t == CHOOSE t \in DOMAIN graph : TRUE
       IN  Len(graph[t][field]) + SumLen([u \in DOMAIN graph \ {t} |-> graph[u]], field)

\* the positions of the edges that leave (enter) a table, in input order
EdgesFrom(relationships, t) ==
  SelectSeq([i \in 1..Len(relationships) |-> i], LAMBDA i : relationships[i].from_table = t)

EdgesTo(relationships, t) ==
  SelectSeq([i \in 1..Len(relationships) |-> i], LAMBDA i : relationships[i].to_table = t)

\* C21: in the graph built from a list of foreign-key edges, both ends of
\* every edge have a node; the references list of a table holds, in input
\* order, one entry for each edge leaving it (the target table, reached
\* through the edge's source column) and its referencedBy list one mirrored
\* entry for each edge entering it; the two totals equal the number of input
\* edges; a self-referencing edge is in both lists of its table.
C21_GraphMirrors ==
  call.tool = "graph" =>
    LET rels == call.relationships
        g == response
    IN  /\ \A i \in 1..Len(rels) : rels[i].from_table \in DOMAIN g /\ rels[i].to_table \in DOMAIN g
        /\ \A t \in DOMAIN g :
             LET out == EdgesFrom(rels, t)
                 in == EdgesTo(rels, t)
             IN  /\ Len(g[t].references) = Len(out)
                 /\ \A k \in 1..Len(out) :
                      /\ g[t].references[k].table = rels[out[k]].to_table
                      /\ g[t].references[k].through = rels[out[k]].from_column
                      /\ g[t].references[k].column = rels[out[k]].to_column
                 /\ Len(g[t].referencedBy) = Len(in)
                 /\ \A k \in 1..Len(in) :
                      /\ g[t].referencedBy[k].table = rels[in[k]].from_table
                      /\ g[t].referencedBy[k].column = rels[in[k]].from_column
                      /\ g[t].referencedBy[k].through = rels[in[k]].to_column
        /\ SumLen(g, "references") = Len(rels)
        /\ SumLen(g, "referencedBy") = Len(rels)

\* a graph has been built from a self-referencing edge followed by two edges
\* from different tables into one table
C21_Witness ==
  /\ call.tool = "graph"
  /\ Len(call.relationships) = 3
  /\ call.relationships[1].from_table = call.relationships[1].to_table
  /\ call.relationships[2].to_table = call.relationships[3].to_table
  /\ call.relationships[2].from_table # call.relationships[3].from_table
  /\ \E t \in DOMAIN response : Len(response[t].referencedBy) >= 2

-----------------------------------------------------------------------------
(* Join suggestions *)

\* the pairs of positions of a list of n tables, in the order of the loops
RECURSIVE PairsFrom(_, _, _)
PairsFrom(n, i, j) ==
  IF i > n THEN <<>>
  ELSE IF j > n THEN PairsFrom(n, i + 1, i + 2)
  ELSE <<<<i, j>>>> \o PairsFrom(n, i, j + 1)

HasKeyTo(info, a, b) == \E k \in 1..Len(info[a].foreignKeys) : info[a].foreignKeys[k].REFERENCED_TABLE_NAME = b

SharedColumns(info, a, b) ==
  {toLowerCase(info[a].columns[i]) : i \in 1..Len(info[a].columns)}
  \cap {toLowerCase(info[b].columns[i]) : i \in 1..Len(info[b].columns)}

\* the suggestion the rules give a pair of tables, if any
Expected(info, a, b, s) ==
  /\ s.joinType = "INNER JOIN"
  /\ IF HasKeyTo(info, a, b)
     THEN /\ s.relationship = "foreign_key" /\ s.from = a /\ s.to = b
          /\ \E k \in 1..Len(info[a].foreignKeys) :
               /\ info[a].foreignKeys[k].REFERENCED_TABLE_NAME = b
               /\ s.condition = a \o <<".">> \o info[a].foreignKeys[k].COLUMN_NAME \o <<" ","="," ">>
                                \o b \o <<".">> \o info[a].foreignKeys[k].REFERENCED_COLUMN_NAME
     ELSE IF HasKeyTo(info, b, a)
     THEN /\ s.relationship = "foreign_key" /\ s.from = b /\ s.to = a
          /\ \E k \in 1..Len(info[b].foreignKeys) :
               /\ info[b].foreignKeys[k].REFERENCED_TABLE_NAME = a
               /\ s.condition = b \o <<".">> \o info[b].foreignKeys[k].COLUMN_NAME \o <<" ","="," ">>
                                \o a \o <<".">> \o info[b].foreignKeys[k].REFERENCED_COLUMN_NAME
     ELSE /\ s.relationship = "inferred" /\ s.from = a /\ s.to = b
          /\ {s.commonColumns[i] : i \in 1..Len(s.commonColumns)} = SharedColumns(info, a, b)
          /\ Len(s.commonColumns) = Cardinality(SharedColumns(info, a, b))
          /\ s.condition = joinWith([i \in 1..Len(s.commonColumns) |->
                              a \o <<".">> \o s.commonColumns[i] \o <<" ","="," ">>
                              \o b \o <<".">> \o s.commonColumns[i]], <<" ","A","N","D"," ">>)

Suggests(info, a, b) ==
  HasKeyTo(info, a, b) \/ HasKeyTo(info, b, a) \/ SharedColumns(info, a, b) # {}

\* C22: the suggestions are, in the order of the pairs (A listed before B),
\* at most one for each pair: a foreign_key INNER JOIN with condition
\* A.col = B.refcol when A has a foreign key to B, else the same from B to A
\* when B has one to A, else an inferred one with the AND-joined equalities
\* of all the column names the two tables share case-insensitively, else
\* none; for orders(customer_id -> customers.id) and customers it is the one
\* suggestion with condition orders.customer_id = customers.id.
C22_JoinSuggestions ==
  call.tool = "joins" =>
    LET info == call.tableInfo
        tables == call.tables
        pairs == SelectSeq(PairsFrom(Len(tables), 1, 2),
                           LAMBDA p : Suggests(info, tables[p[1]], tables[p[2]]))
    IN  /\ Len(response) = Len(pairs)
        /\ \A k \in 1..Len(pairs) :
             Expected(info, tables[pairs[k][1]], tables[pairs[k][2]], response[k])
        /\ (tables = <<Orders, Customers>> /\ info[Orders].foreignKeys = <<FkCustomer>>
            /\ info[Customers].foreignKeys = <<>>)
           => /\ Len(response) = 1
              /\ response[1].relationship = "foreign_key"
              /\ response[1].joinType = "INNER JOIN"
              /\ response[1].condition = <<"o","r","d","e","r","s",".","c","u","s","t","o","m","e","r","_","i","d"," ","="," ","c","u","s","t","o","m","e","r","s",".","i","d">>

\* customers and orders were requested in that order, orders has a foreign
\* key to customers and the two share column names: one suggestion was made
C22_Witness ==
  /\ call.tool = "joins"
  /\ call.tables = <<Customers, Orders>>
  /\ call.tableInfo[Orders].foreignKeys = <<FkBackup, FkCustomer>>
  /\ call.tableInfo[Customers].foreignKeys = <<>>
  /\ SharedColumns(call.tableInfo, Customers, Orders) # {}
  /\ Len(response) = 1
  /\ response[1].from = Orders

-----------------------------------------------------------------------------
(* Properties of a discovery call as a whole *)

\* C23: discovery is all-or-nothing.  A call in which a catalog, column or
\* sample query failed ends with an error result, leaves the cache as it
\* was and writes no entry; a call that returns a report computed live sent
\* every statement of its page and none of them failed.
C23_AllOrNothing ==
  call.tool = "mysql_discover_analytics" =>
    /\ io.failed => /\ response.kind = "error"
                    /\ io.wrote = NoPath
                    /\ files = pre.files /\ dirs = pre.dirs
    /\ (response.kind = "document" /\ response.cache.from # "cache")
         => /\ ~io.failed
            /\ io.executed = discoveryStatements(call.args)

\* a call failed in its second database, after the first had been analyzed
C23_Witness ==
  /\ call.tool = "mysql_discover_analytics"
  /\ io.failed
  /\ Len(io.executed) >= 4
  /\ io.executed[4].sql = "information_schema.TABLES"
  /\ response.kind = "error"

\* C28: the executedQueries of a report computed live is exactly the
\* sequence of statements the call sent to the database, in the order they
\* were sent, the databases of the page being analyzed one after another.
C28_ExecutedQueries ==
  ( /\ call.tool = "mysql_discover_analytics"
    /\ response.kind = "document"
    /\ response.cache.from # "cache" )
  => response.doc.executedQueries = io.executed

\* C29: a report returned to a call that asked for no recommendations has
\* none, and a report returned to a call that asked for no cross-database
\* analysis has none, whether it was computed live or read from the cache.
C29_FlagsHonoured ==
  (call.tool = "mysql_discover_analytics" /\ response.kind = "document")
  => /\ ~call.args.include_recommendations => ~response.doc.recommendations
     /\ ~call.args.cross_database_analysis => ~response.doc.crossDatabase

-----------------------------------------------------------------------------
(* The connection handle *)

\* the connections to the database server that have been opened and not ended
OpenConnections == (IF connection.open THEN 1 ELSE 0) + connection.replaced

\* C30: at most one database connection is open after any sequence of tool
\* calls, the connection left by a successful call for an explicit database
\* is a connection to that database, and after cleanup() none is open.
C30_SingleConnection ==
  /\ OpenConnections <= 1
  /\ ( /\ call.tool = "mysql_query" /\ response.kind = "document"
       /\ Truthy(call.args.database) )
     => (connection.open /\ connection.database = call.args.database)
  /\ call.tool = "cleanup" => OpenConnections = 0

-----------------------------------------------------------------------------
(* Properties of the dispatch of tool calls *)

\* C24: a mysql_analyze_tables call whose tables argument is missing or
\* empty is rejected before any I/O: no connection is opened or pinged and
\* no statement is executed, as for a rejected mysql_query.
C24_AnalyzeValidationBeforeIo ==
  ( /\ call.tool = "mysql_analyze_tables"
    /\ (call.args.tables = NoTables \/ call.args.tables = <<>>) )
  => /\ response.kind = "error"
     /\ io.connects = 0 /\ connection = pre.conn
     /\ io.executed = <<>>

\* C25: every tool call ends with one result, a document or an error text;
\* a call in which the connection or a statement failed ends with the error
\* text and never with a document, a document computed live comes from a
\* call in which nothing failed, and a call that failed leaves the server
\* answering the calls after it.
C25_OneResult ==
  call.tool \in ToolNames =>
    /\ response.kind \in {"document", "error"}
    /\ response.kind = "error" => response.error \in NonCacheErrors
    /\ io.failed => response.kind = "error"
    /\ (io.connects > 0 /\ ~connection.open) => response.kind = "error"
    /\ (response.kind = "document" /\ response.cache.from # "cache")
         => (~io.failed /\ io.executed # <<>> /\ connection.open)

\* a call failed while executing its statement and the next call returned a
\* document computed live
C25_Witness ==
  /\ call.tool \in ToolNames
  /\ pre.last.tool \in ToolNames
  /\ ~pre.last.ok
  /\ response.kind = "document"
  /\ response.cache.from # "cache"

-----------------------------------------------------------------------------
(* Cross-database insights *)

\* the analyzed databases that hold a table of the name
HoldersOf(databases, name) ==
  {databases[d].name : d \in {d \in 1..Len(databases) :
                                \E t \in 1..Len(databases[d].tables) :
                                   databases[d].tables[t].name = name}}

TableNamesOf(databases) ==
  UNION {{databases[d].tables[t].name : t \in 1..Len(databases[d].tables)} :
           d \in 1..Len(databases)}

\* the analyzed databases with a user table or an event table
UserHolders(databases) ==
  {databases[d].name : d \in {d \in 1..Len(databases) :
       \E t \in 1..Len(databases[d].tables) :
          \/ databases[d].tables[t].relationships.isUserTable
          \/ databases[d].tables[t].relationships.isEventTable}}

InsightsOf(pattern) == SelectSeq(response, LAMBDA i : i.pattern = pattern)

\* C26: there are cross-database insights only when the analysis was asked
\* for and more than one database was analyzed; then there is exactly one
\* duplicate_table_structure insight for each table name held by at least
\* two analyzed databases, listing exactly those databases, and one
\* distributed_user_data insight exactly when at least two analyzed
\* databases hold a user table or an event table; nothing else is reported.
C26_CrossDatabaseInsights ==
  call.tool = "cross" =>
    LET dbs == call.databases
        dup == InsightsOf("duplicate_table_structure")
        user == InsightsOf("distributed_user_data")
    IN  /\ response # <<>> => (call.cross_database_analysis /\ Len(dbs) > 1)
        /\ Len(dbs) <= 1 => response = <<>>
        /\ (call.cross_database_analysis /\ Len(dbs) > 1) =>
             /\ Len(response) = Len(dup) + Len(user)
             /\ \A name \in TableNamesOf(dbs) :
                  LET of == SelectSeq(dup, LAMBDA i : i.table = name)
                  IN  IF Cardinality(HoldersOf(dbs, name)) >= 2
                      THEN /\ Len(of) = 1
                           /\ {of[1].databases[k] : k \in 1..Len(of[1].databases)}
                                = HoldersOf(dbs, name)
                           /\ Len(of[1].databases) = Cardinality(HoldersOf(dbs, name))
                      ELSE Len(of) = 0
             /\ \A i \in 1..Len(dup) : dup[i].table \in TableNamesOf(dbs)
             /\ IF Cardinality(UserHolders(dbs)) >= 2
                THEN /\ Len(user) = 1
                     /\ {user[1].databases[k] : k \in 1..Len(user[1].databases)}
                          = UserHolders(dbs)
                ELSE Len(user) = 0

\* three analyzed databases, a table held by two of them and another by one,
\* user data in two of them: both kinds of insight were reported
C26_Witness ==
  /\ call.tool = "cross"
  /\ Len(call.databases) = 3
  /\ \E name \in TableNamesOf(call.databases) :
        Cardinality(HoldersOf(call.databases, name)) = 1
  /\ Len(InsightsOf("duplicate_table_structure")) >= 1
  /\ Len(InsightsOf("distributed_user_data")) = 1

-----------------------------------------------------------------------------
(* The detail levels of analyzeSingleDatabase *)

SentOfKind(kind) == SelectSeq(response.executedQueries, LAMBDA q : q.kind = kind)

\* the part of C27 about statements and per-table data: the table-stats and
\* foreign-key statements are sent first at every level; at summary no column
\* and no sample statement is sent and tables carry neither columns nor
\* samples; at detailed one column statement per table and no sample
\* statement; at full also one sample statement per table, limited by the
\* sample limit, none when the limit is 0, and insights, which no other level
\* has; at most maxTables tables are analyzed; the role counts are there.
DetailPolicy ==
  call.tool = "analyze" =>
    LET level == call.detail_level
        tables == response.database.tables
    IN  /\ Len(response.executedQueries) >= 2
        /\ response.executedQueries[1].kind = "tables"
        /\ response.executedQueries[1].limit = call.max_tables_per_db
        /\ response.executedQueries[2].kind = "relationships"
        /\ Len(SentOfKind("tables")) = 1 /\ Len(SentOfKind("relationships")) = 1
        /\ Len(tables) <= call.max_tables_per_db
        /\ Len(tables) = min(call.tableCount, call.max_tables_per_db)
        /\ Len(SentOfKind("columns")) = (IF level = "summary" THEN 0 ELSE Len(tables))
        /\ Len(SentOfKind("sample"))
             = (IF level = "full" /\ call.sample_data_limit > 0 THEN Len(tables) ELSE 0)
        /\ \A i \in 1..Len(SentOfKind("sample")) :
             SentOfKind("sample")[i].limit = call.sample_data_limit
        /\ \A i \in 1..Len(tables) :
             /\ ("columns" \in DOMAIN tables[i]) <=> (level # "summary")
             /\ ("sampleData" \in DOMAIN tables[i]) <=> (level = "full")
             /\ ("insights" \in DOMAIN tables[i]) <=> (level = "full")
             /\ level = "summary" => tables[i].analysis.identifierColumns = <<>>
        /\ response.database.summary.totalTables = Len(tables)
        /\ Len(response.database.relationships) = Len(relationshipRows(call.tableCount))

\* C27: the detail-level policy of analyzeSingleDatabase holds, and at every
\* level the result contains the relationship graph of the database, built
\* from its foreign-key edges, and the role-count summary.
C27_DetailLevels ==
  call.tool = "analyze" =>
    /\ DetailPolicy
    /\ "summary" \in DOMAIN response.database
    /\ "relationshipGraph" \in DOMAIN response.database

====
